---- MODULE Spec2Model ----
(***************************************************************************)
(* A model of the beleg compiler front end: the append-only AST arena      *)
(* (src/src/ast), the node-kind classification (src/src/ast/ast.cc) and    *)
(* the multi-file source map (src/src/source_map).                          *)
(*                                                                         *)
(* C++ vectors are modelled as sequences; a vector index i (0-based) is    *)
(* element i+1 of the sequence, see At.  std::optional<T> is modelled as   *)
(* the record None or Some(v).  u32 and usize arithmetic is modelled on the *)
(* integers: the bounds keep every index and offset far below 2^32.        *)
(***************************************************************************)
EXTENDS Integers, Sequences, FiniteSets, TLC

\* ------------------------------------------------------------------ bounds

\* The arena holds at most MaxNodes real nodes (the sentinel not counted).
MaxNodes == 3
\* The flat child buffer children_ holds at most MaxChildBuf entries.
MaxChildBuf == 5
\* The registered files hold at most MaxTotal bytes together.
MaxTotal == 4

\* The largest ceiling a DiagCtxt is built with
MaxCeiling == 2

\* The number of DiagCtxt::emit calls
MaxEmits == 3

\* The number of emitters registered with a DiagCtxt
MaxEmitters == 2

\* The labels and the notes of a rendered Diag
MaxLabels == 2
MaxNotes == 1

\* The tokens of a Parser and the ScopedGuards alive at once
MaxTokens == 2
MaxGuards == 3

\* The checkpoints on the cursor stack when enter() is called directly
MaxDepth == 3

\* The nodes of a Vfs below its root
MaxVfsNodes == 2
MaxSrcLen == 3

\* ----------------------------------------------------------------- helpers

None == [has |-> FALSE]
Some(v) == [has |-> TRUE, value |-> v]

\* v.size() and v[i] of a std::vector
Size(v) == Len(v)
At(v, i) == v[i + 1]

\* All sequences over S of length at most n
SeqsUpTo(S, n) == UNION {[1..k -> S] : k \in 0..n}

\* Span(s, e), src/src/source_map/source_map.hh
Span(s, e) == [start |-> s, end |-> e]

VARIABLES
    \* Ast (src/src/ast/ast.hh:267-274)
    nodes_,            \* std::vector<NodeKind>
    spans_,            \* std::vector<Span>
    children_start_,   \* std::vector<NodeIndex>
    children_,         \* std::vector<NodeIndex>, the flat child buffer
    root_,             \* NodeIndex
    \* the calls made on the Ast so far
    builders,          \* the NodeBuilder of the n-th add_node call
    add_ret,           \* the value returned by the n-th add_node call
    set_root_arg,      \* the argument of the last set_root call, None before it
    \* get_node_type (src/src/ast/ast.cc)
    nt_kind,           \* the NodeKind passed
    nt_type,           \* the NodeType returned, None before the call
    \* SourceMap (src/src/source_map/source_map.hh:106-108)
    files,             \* std::vector<SourceFile>
    file_id_map,       \* std::unordered_map<std::string, FileId>
    next_start_pos,    \* u32
    \* the last call made on the SourceMap
    sm_call,           \* [op, name, content], op "none" before the first call
    sm_ret,            \* what the call returned
    sm_load_failed,    \* whether a load_file call has found its file unreadable
    \* DiagCtxt (src/src/diag/diag.hh:127-132)
    options_,          \* DiagCtxtOptions
    emitters_,         \* std::vector<std::unique_ptr<DiagEmitter>>
    error_count_,      \* u32
    warning_count_,    \* u32
    \* the calls made on the DiagCtxt and what its emitters were handed
    emitted,           \* the Diag of the n-th DiagCtxt::emit call
    delivered,         \* the DiagEmitter::emit calls made, in order
    \* TerminalEmitterImpl (src/src/diag/terminal_emitter.cc:66-70)
    output_,           \* std::ostream&: the lines the last emit call wrote
    use_colors_,       \* bool
    use_unicode_,      \* bool
    source_map_,       \* SourceMap*: FALSE for nullptr, TRUE for the SourceMap
    \* the last emit call made on the emitter
    te_diag,           \* its Diag, None before the first call
    te_sorted,         \* sorted_labels as std::sort left it
    te_blocks,         \* the lines each render_label call wrote, in call order
    \* Parser (src/src/parse/parse.hh:72-78)
    tokens_,           \* std::vector<Token>
    cursor_,           \* usize
    cursor_stack_,     \* std::vector<usize>
    start_pos_,        \* u32
    \* the ScopedGuard objects alive, in the order of their construction,
    \* each with the stack depth found when it was constructed
    guards,
    pa_call,           \* the last call made on the Parser or on a guard
    pa_error,          \* the ParseError emitted last, if any
    \* Vfs (src/src/vfs/vfs.hh:198)
    vfs_nodes_,        \* std::vector<VfsNode> nodes_
    \* the calls made on the Vfs
    vfs_call,          \* the last call, [op, node_id, value]
    vfs_ret,           \* what it returned
    vfs_set,           \* per node id, the values the successful setters passed last
    \* Lexer (src/src/lex/lex.hh:153-154)
    src,               \* std::string_view, a sequence of chars
    cursor,            \* usize
    lex_ret            \* the Token the last call of next returned, if any

astVars == <<nodes_, spans_, children_start_, children_, root_,
             builders, add_ret, set_root_arg>>
ntVars == <<nt_kind, nt_type>>
smVars == <<files, file_id_map, next_start_pos, sm_call, sm_ret,
            sm_load_failed>>

dgVars == <<options_, emitters_, error_count_, warning_count_,
            emitted, delivered>>

teVars == <<output_, use_colors_, use_unicode_, source_map_,
            te_diag, te_sorted, te_blocks>>

paVars == <<tokens_, cursor_, cursor_stack_, start_pos_, guards, pa_call, pa_error>>
vfsVars == <<vfs_nodes_, vfs_call, vfs_ret, vfs_set>>
lexVars == <<src, cursor, lex_ret>>

vars == <<astVars, ntVars, smVars, dgVars, teVars, paVars, vfsVars, lexVars>>

\* What a step of one component leaves alone
NotAst == <<ntVars, smVars, dgVars, teVars, paVars, vfsVars, lexVars>>
NotNodeType == <<astVars, smVars, dgVars, teVars, paVars, vfsVars, lexVars>>
NotSourceMap == <<astVars, ntVars, dgVars, teVars, paVars, vfsVars, lexVars>>
NotDiag == <<astVars, ntVars, smVars, teVars, paVars, vfsVars, lexVars>>
NotTerminalEmitter == <<astVars, ntVars, dgVars, paVars, vfsVars, lexVars>>
NotParser == <<astVars, ntVars, smVars, dgVars, teVars, vfsVars, lexVars>>
NotLexer == <<astVars, ntVars, smVars, dgVars, teVars, paVars, vfsVars>>
NotVfs == <<astVars, ntVars, smVars, dgVars, teVars, paVars, lexVars>>

\* Each component has its own specification; the other components then stay
\* in their state after construction.
NtIdle == nt_kind = "Invalid" /\ nt_type = None

\* ===================================================================== Ast

\* The kinds and spans the builders of the model carry.
BuilderHeads == {[kind |-> "Int", span |-> Span(0, 1)],
                 [kind |-> "Add", span |-> Span(0, 3)]}

\* Child::single / Child::multiple
Single(i) == [kind |-> "Single", index |-> i]
Multiple(s) == [kind |-> "Multiple", indices |-> s]

\* The number of entries of children_ that add_node appends for a builder's
\* children: one per slot, and count + indices for every group.
RECURSIVE Cells(_)
Cells(cs) ==
    IF cs = <<>> THEN 0
    ELSE (IF Head(cs).kind = "Single" THEN 1 ELSE 2 + Len(Head(cs).indices))
         + Cells(Tail(cs))

\* Ast::Ast()
AstInit ==
    /\ nodes_ = <<"Invalid">>
    /\ spans_ = <<Span(0, 0)>>
    /\ children_start_ = <<0>>
    /\ children_ = <<0>>
    /\ root_ = 0
    /\ builders = <<>>
    /\ add_ret = <<>>
    /\ set_root_arg = None

\* LenIndex with the descriptor pointing past the count, at the first index.
LenIndex_PastCount(buf) == Size(buf) + 1

\* Where a group's length-prefixed run starts: children_.size() when the
\* group is reached.
LenIndex(buf) == Size(buf)

\* The loop over builder.children() of Ast::add_node: buf is children_ and
\* idxs is child_indices.
RECURSIVE ProcessChildren(_, _, _)
ProcessChildren(cs, buf, idxs) ==
    IF cs = <<>> THEN [children |-> buf, child_indices |-> idxs]
    ELSE LET child == Head(cs) IN
         IF child.kind = "Single"
         THEN ProcessChildren(Tail(cs), buf, Append(idxs, child.index))
         ELSE LET len_index == LenIndex(buf) IN
              ProcessChildren(Tail(cs),
                              (buf \o <<Len(child.indices)>>) \o child.indices,
                              Append(idxs, len_index))

\* Where the node's own descriptor list starts: children_.size() after the
\* groups were written.
ChildrenStartPos(processed) == Size(processed.children)

\* NewNodeIndex taken as the index of the last node already stored.
NewNodeIndex_Last == Size(nodes_) - 1

\* The index of the node add_node appends: nodes_.size() before the call.
NewNodeIndex == Size(nodes_)

\* Ast::add_node
add_node(builder) ==
    LET processed == ProcessChildren(builder.children, children_, <<>>)
        node_index == NewNodeIndex
        children_start_pos == ChildrenStartPos(processed)
    IN  /\ children_' = processed.children \o processed.child_indices
        /\ nodes_' = Append(nodes_, builder.kind)
        /\ spans_' = Append(spans_, builder.span)
        /\ children_start_' = Append(children_start_, children_start_pos)
        /\ builders' = Append(builders, builder)
        /\ add_ret' = Append(add_ret, node_index)

\* set_root that leaves the root at the sentinel.
set_root_Dropped(root) ==
    /\ root_' = 0
    /\ set_root_arg' = Some(root)

\* Ast::set_root
set_root(root) ==
    /\ root_' = root
    /\ set_root_arg' = Some(root)

\* Ast::root
root == root_

\* The end of a node's descriptor list as Ast::get_children computes it.
ChildrenEnd(node_index) ==
    IF node_index + 1 < Size(children_start_)
    THEN At(children_start_, node_index + 1)
    ELSE Size(children_)

\* Ast::get_children
get_children(node_index) ==
    IF node_index = 0 \/ node_index >= Size(nodes_) THEN <<>>
    ELSE LET start == At(children_start_, node_index)
             end == ChildrenEnd(node_index)
         IN  SubSeq(children_, start + 1, end)

\* get_node_kind without the check for the sentinel index.
get_node_kind_NoSentinelCheck(node_index) ==
    IF node_index >= Size(nodes_) THEN None
    ELSE Some(At(nodes_, node_index))

\* Ast::get_node_kind
get_node_kind(node_index) ==
    IF node_index = 0 \/ node_index >= Size(nodes_) THEN None
    ELSE Some(At(nodes_, node_index))

\* Ast::get_node
get_node(node_index) ==
    IF node_index = 0 \/ node_index >= Size(nodes_) THEN None
    ELSE Some([kind |-> At(nodes_, node_index),
               span |-> At(spans_, node_index),
               children |-> get_children(node_index)])

\* Ast::get_span
get_span(node_index) ==
    IF node_index = 0 \/ node_index >= Size(nodes_) THEN None
    ELSE Some(At(spans_, node_index))

\* Ast::get_multi_child_slice
get_multi_child_slice(slice_len_index) ==
    IF slice_len_index = 0 \/ slice_len_index >= Size(children_) THEN None
    ELSE LET slice_start == slice_len_index
             count == At(children_, slice_start)
             data_start == slice_start + 1
             data_end == data_start + count
         IN  IF data_end > Size(children_) THEN None
             ELSE Some(SubSeq(children_, data_start + 1, data_end))

\* The child indices a caller passes: the sentinel or a node of the arena.
ChildIndices == 0..(Size(nodes_) - 1)

\* The child slots that take at most room entries of the child buffer.
ChildSlots(room) ==
    {Single(i) : i \in IF room >= 1 THEN ChildIndices ELSE {}}
    \cup {Multiple(s) : s \in SeqsUpTo(ChildIndices, room - 2)}

\* The children lists of the builders that take at most room entries of the
\* child buffer.
RECURSIVE ChildLists(_)
ChildLists(room) ==
    {<<>>} \cup UNION {{<<c>> \o rest : rest \in ChildLists(room - Cells(<<c>>))} :
                       c \in ChildSlots(room)}

BuilderChildren == ChildLists(MaxChildBuf - Size(children_))

\* ================================================================ NodeType

\* enum class NodeKind, in declaration order
NodeKinds ==
    {"Invalid", "Id", "Str", "Int", "Real", "Char", "Bool", "Unit", "Symbol",
     "ListOf", "Tuple", "Object", "BoolNot", "SelfLower", "SelfCap", "Null",
     "OptionalType", "PointerType", "FunctionType", "RangeFull", "RangeTo",
     "RangeToInclusive", "RangeFrom", "RangeFromTo", "RangeFromToInclusive",
     "Add", "Sub", "Mul", "Div", "Mod", "AddAdd", "BoolEq", "BoolNotEq",
     "BoolAnd", "BoolOr", "BoolGt", "BoolGtEq", "BoolLt", "BoolLtEq",
     "Select", "Image", "Deref", "Refer", "TypeCast", "Call", "IndexCall",
     "ObjectCall", "PostMatch", "PatternArm", "ConditionArm", "CatchArm",
     "ExprStatement", "Assign", "AddAssign", "SubAssign", "MulAssign",
     "DivAssign", "ConstDecl", "LetDecl", "ReturnStatement", "BreakStatement",
     "ContinueStatement", "IfStatement", "WhenStatement", "WhileLoop",
     "ForLoop", "PatternIfGuard", "PatternAsBind", "PatternOptionSome",
     "PatternObjectCall", "PatternRangeTo", "PatternRangeToInclusive",
     "PatternRangeFrom", "PatternRangeFromTo", "PatternRangeFromToInclusive",
     "PropertyPattern", "PatternRecord", "PatternList", "PatternTuple",
     "FunctionDef", "StructDef", "StructField", "EnumDef",
     "EnumVariantWithPattern", "UnionDef", "UnionVariant", "Typealias",
     "Newtype", "ModuleDef", "ModStatement", "UseStatement", "PathSelect",
     "PathSelectMulti", "PathSelectAll", "SuperPath", "PackagePath",
     "PathAsBind", "ParamTyped", "ParamSelf", "ParamSelfRef", "Block",
     "FileScope"}

\* The case labels of get_node_type, one set per return statement, in source
\* order: <<labels, shape returned>>.
NodeTypeArms ==
    <<<<{"Invalid", "Id", "Str", "Int", "Real", "Char", "Bool", "Unit",
          "Symbol", "SelfLower", "SelfCap", "Null", "ParamSelf",
          "ParamSelfRef", "RangeFull"},
        "NoChild">>,
      <<{"BoolNot", "OptionalType", "PointerType", "FunctionType", "RangeTo",
          "RangeToInclusive", "RangeFrom", "Deref", "Refer", "TypeCast",
          "ExprStatement", "PatternOptionSome", "PatternRangeTo",
          "PatternRangeToInclusive", "PatternRangeFrom", "ModStatement",
          "UseStatement", "PathSelectAll", "SuperPath", "PackagePath",
          "ReturnStatement", "BreakStatement", "ContinueStatement"},
        "SingleChild">>,
      <<{"RangeFromTo", "RangeFromToInclusive", "Add", "Sub", "Mul", "Div",
          "Mod", "AddAdd", "BoolEq", "BoolNotEq", "BoolAnd", "BoolOr",
          "BoolGt", "BoolGtEq", "BoolLt", "BoolLtEq", "Select", "Image",
          "IndexCall", "PatternArm", "ConditionArm", "CatchArm",
          "PatternRangeFromTo", "PatternRangeFromToInclusive",
          "PropertyPattern", "StructField", "UnionVariant", "PathSelect",
          "PathAsBind", "ParamTyped", "Assign", "AddAssign", "SubAssign",
          "MulAssign", "DivAssign"},
        "DoubleChildren">>,
      <<{"ConstDecl", "LetDecl", "IfStatement", "WhileLoop",
          "PatternIfGuard", "PatternAsBind"},
        "TripleChildren">>,
      <<{"ForLoop"},
        "QuadrupleChildren">>,
      <<{"ListOf", "Tuple", "Object", "Block", "PatternRecord",
          "PatternList", "PatternTuple", "WhenStatement", "FileScope"},
        "MultiChildren">>,
      <<{"Call", "ObjectCall", "PostMatch", "PatternObjectCall"},
        "SingleWithMultiChildren">>,
      <<{"FunctionDef"},
        "FunctionDefChildren">>,
      <<{"StructDef", "EnumDef", "UnionDef", "ModuleDef"},
        "TypeDefChildren">>,
      <<{"Typealias", "Newtype"},
        "TypeAliasChildren">>>>

\* The arm of the switch a kind selects: the position of the return
\* statement its case label leads to, 0 for the default label.
NodeTypeArm(kind) ==
    IF \E a \in 1..Len(NodeTypeArms) : kind \in NodeTypeArms[a][1]
    THEN CHOOSE a \in 1..Len(NodeTypeArms) : kind \in NodeTypeArms[a][1]
    ELSE 0

\* get_node_type
get_node_type(kind) ==
    IF NodeTypeArm(kind) = 0 THEN "NoChild"
    ELSE NodeTypeArms[NodeTypeArm(kind)][2]

NtInit == nt_kind \in NodeKinds /\ nt_type = None

\* ============================================================== SourceMap

\* The bytes of the file contents of the model: a newline and another byte.
NL == "\n"
Alphabet == {"x", NL}

\* SourceFile::compute_line_starts, the loop from byte i on: starts is
\* line_starts.
RECURSIVE LineStartsLoop(_, _, _)
LineStartsLoop(content, i, starts) ==
    IF i >= Size(content) THEN starts
    ELSE LineStartsLoop(content, i + 1,
                        IF At(content, i) = NL THEN Append(starts, i + 1)
                        ELSE starts)

\* SourceFile::compute_line_starts
compute_line_starts(content) == LineStartsLoop(content, 0, <<0>>)

\* SourceFile::SourceFile
SourceFile(name, content, start_pos) ==
    [name |-> name, content |-> content, start_pos |-> start_pos,
     line_starts |-> compute_line_starts(content)]

\* Location(f, l, c); a FileId is modelled as its id.
Location(f, l, c) == [file |-> f, line |-> l, column |-> c]

\* std::upper_bound(v.begin(), v.end(), x) - v.begin() on a sorted vector:
\* the first index whose element is greater than x, v.size() when none is.
UpperBound(v, x) ==
    IF \E i \in 0..(Size(v) - 1) : At(v, i) > x
    THEN CHOOSE i \in 0..(Size(v) - 1) :
             /\ At(v, i) > x
             /\ \A j \in 0..(i - 1) : ~(At(v, j) > x)
    ELSE Size(v)

\* SourceFile::byte_pos_to_location
byte_pos_to_location(file, byte_pos, file_id) ==
    IF byte_pos >= Size(file.content)
    THEN IF file.line_starts = <<>> THEN Location(file_id, 1, 0)
         ELSE LET last_line == Size(file.line_starts)
                  last_line_start == At(file.line_starts, Size(file.line_starts) - 1)
                  column == Size(file.content) - last_line_start
              IN  Location(file_id, last_line, column)
    ELSE LET it == UpperBound(file.line_starts, byte_pos) - 1
             line_number == it + 1
             column == byte_pos - At(file.line_starts, it)
         IN  Location(file_id, line_number, column)

\* location_to_byte_pos without the check of the column.
location_to_byte_pos_NoColumnCheck(file, line, column) ==
    IF line = 0 \/ line > Size(file.line_starts) THEN None
    ELSE Some(At(file.line_starts, line - 1) + column)

\* SourceFile::location_to_byte_pos
location_to_byte_pos(file, line, column) ==
    IF line = 0 \/ line > Size(file.line_starts) THEN None
    ELSE LET line_start == At(file.line_starts, line - 1)
             byte_pos == line_start + column
         IN  IF line < Size(file.line_starts)
             THEN IF byte_pos > At(file.line_starts, line) THEN None
                  ELSE Some(byte_pos)
             ELSE IF byte_pos > Size(file.content) THEN None
                  ELSE Some(byte_pos)

\* SourceMap::SourceMap
SmInit ==
    /\ files = <<>>
    /\ file_id_map = <<>>
    /\ next_start_pos = 0
    /\ sm_call = [op |-> "none"]
    /\ sm_ret = None
    /\ sm_load_failed = FALSE

\* Registered with the lookup by name never finding the file.
Registered_Never(name) == FALSE

\* file_id_map.find(name) != file_id_map.end()
Registered(name) == name \in DOMAIN file_id_map

\* AdvanceStartPos leaving one position between two files.
AdvanceStartPos_Gap(pos, content) == pos + Size(content) + 1

\* next_start_pos after a file with this content was registered
AdvanceStartPos(pos, content) == pos + Size(content)

\* SourceMap::add_file: the state it leaves and the FileId it returns
add_file(name, content) ==
    IF Registered(name)
    THEN /\ sm_ret' = Some(file_id_map[name])
         /\ UNCHANGED <<files, file_id_map, next_start_pos>>
    ELSE LET file_id == Size(files) IN
         /\ files' = Append(files, SourceFile(name, content, next_start_pos))
         /\ file_id_map' = [n \in DOMAIN file_id_map \cup {name} |->
                                IF n = name THEN file_id ELSE file_id_map[n]]
         /\ next_start_pos' = AdvanceStartPos(next_start_pos, content)
         /\ sm_ret' = Some(file_id)

\* load_file registering an empty file when the file cannot be opened.
load_file_RegistersUnreadable(path, read) ==
    IF Registered(path)
    THEN /\ sm_ret' = Some(file_id_map[path])
         /\ UNCHANGED <<files, file_id_map, next_start_pos>>
    ELSE add_file(path, IF read.has THEN read.value ELSE <<>>)

\* SourceMap::load_file; read is what the file system gives for the path:
\* None when the file cannot be opened, else Some(its bytes).
load_file(path, read) ==
    IF Registered(path)
    THEN /\ sm_ret' = Some(file_id_map[path])
         /\ UNCHANGED <<files, file_id_map, next_start_pos>>
    ELSE IF ~read.has
         THEN /\ sm_ret' = None
              /\ UNCHANGED <<files, file_id_map, next_start_pos>>
         ELSE add_file(path, read.value)

\* SourceMap::get_file, nullptr modelled as None
get_file(file_id) ==
    IF file_id >= Size(files) THEN None ELSE Some(At(files, file_id))

\* LocalPos handing the global position on as the local one.
LocalPos_Global(global_pos, file) == global_pos

\* The position inside the file: global_pos - file.start_pos
LocalPos(global_pos, file) == global_pos - file.start_pos

\* The loop of SourceMap::lookup_location from file i on.
RECURSIVE LookupLocationLoop(_, _)
LookupLocationLoop(global_pos, i) ==
    IF i >= Size(files) THEN None
    ELSE LET file == At(files, i)
             file_end == file.start_pos + Size(file.content)
         IN  IF global_pos >= file.start_pos /\ global_pos < file_end
             THEN LET local_pos == LocalPos(global_pos, file)
                  IN  Some(byte_pos_to_location(file, local_pos, i))
             ELSE LookupLocationLoop(global_pos, i + 1)

\* SourceMap::lookup_location
lookup_location(global_pos) == LookupLocationLoop(global_pos, 0)

\* GlobalPos returning the local position.
GlobalPos_Local(file, local_pos) == local_pos

\* The global position of a local one: file->start_pos + *local_pos
GlobalPos(file, local_pos) == file.start_pos + local_pos

\* SourceMap::lookup_byte_pos
lookup_byte_pos(loc) ==
    LET file == get_file(loc.file) IN
    IF ~file.has THEN None
    ELSE LET local_pos == location_to_byte_pos(file.value, loc.line, loc.column)
         IN  IF ~local_pos.has THEN None
             ELSE Some(GlobalPos(file.value, local_pos.value))

\* Span::is_valid
is_valid(span) == span.start <= span.end

\* SourceFile::get_span_text
file_get_span_text(file, span) ==
    IF ~is_valid(span) \/ span.end > Size(file.content) THEN None
    ELSE Some(SubSeq(file.content, span.start + 1, span.end))

Max(a, b) == IF a >= b THEN a ELSE b
Min(a, b) == IF a <= b THEN a ELSE b

\* LocalEnd without the clamp to the end of the file.
LocalEnd_Unclamped(span, file, file_end) == span.end - file.start_pos

\* local_end of SourceMap::get_span_text
LocalEnd(span, file, file_end) == Min(span.end, file_end) - file.start_pos

\* The loop over the files of SourceMap::get_span_text from file i on, with
\* the text gathered and the end of what is covered so far.
RECURSIVE GetSpanTextLoop(_, _, _, _)
GetSpanTextLoop(span, i, result, covered_end) ==
    IF i >= Size(files)
    THEN IF covered_end >= span.end THEN Some(result) ELSE None
    ELSE LET file == At(files, i)
             file_end == file.start_pos + Size(file.content)
         IN  IF /\ covered_end < file_end
                /\ span.end > file.start_pos
                /\ covered_end >= file.start_pos
             THEN LET local_start == Max(covered_end, file.start_pos) - file.start_pos
                      local_end == LocalEnd(span, file, file_end)
                      span_text == file_get_span_text(file, Span(local_start, local_end))
                  IN  IF span_text.has
                      THEN GetSpanTextLoop(span, i + 1, result \o span_text.value,
                                           file.start_pos + local_end)
                      ELSE None
             ELSE GetSpanTextLoop(span, i + 1, result, covered_end)

\* SourceMap::get_span_text
get_span_text(span) ==
    IF ~is_valid(span) THEN None
    ELSE GetSpanTextLoop(span, 0, <<>>, span.start)

\* make_span that leaves the file's start_pos out.
make_span_Local(file_id, start_line, start_col, end_line, end_col) ==
    LET file == get_file(file_id) IN
    IF ~file.has THEN Span(0, 0)
    ELSE LET start_pos == location_to_byte_pos(file.value, start_line, start_col)
             end_pos == location_to_byte_pos(file.value, end_line, end_col)
         IN  IF ~start_pos.has \/ ~end_pos.has THEN Span(0, 0)
             ELSE Span(start_pos.value, end_pos.value)

\* SourceMap::make_span
make_span(file_id, start_line, start_col, end_line, end_col) ==
    LET file == get_file(file_id) IN
    IF ~file.has THEN Span(0, 0)
    ELSE LET start_pos == location_to_byte_pos(file.value, start_line, start_col)
             end_pos == location_to_byte_pos(file.value, end_line, end_col)
         IN  IF ~start_pos.has \/ ~end_pos.has THEN Span(0, 0)
             ELSE Span(file.value.start_pos + start_pos.value,
                       file.value.start_pos + end_pos.value)

\* ================================================================ DiagCtxt

\* enum class DiagLevel
DiagLevels == {"Note", "Warning", "Error", "Fatal"}

\* DiagCtxtOptions and its default ceilings
DefaultMaxErrors == 100
DefaultMaxWarnings == 1000

DiagCtxtOptions(max_errors, max_warnings) ==
    [max_errors |-> max_errors, max_warnings |-> max_warnings]

\* A DiagCtxt after construction with some options: no emitter, no count.
DgInit ==
    /\ options_ \in {DiagCtxtOptions(e, w) : e \in 0..MaxCeiling, w \in 0..MaxCeiling}
    /\ emitters_ = <<>>
    /\ error_count_ = 0
    /\ warning_count_ = 0
    /\ emitted = <<>>
    /\ delivered = <<>>

\* A default-constructed DiagCtxt, for the specifications of the other
\* components.
DgIdle ==
    /\ options_ = DiagCtxtOptions(DefaultMaxErrors, DefaultMaxWarnings)
    /\ emitters_ = <<>>
    /\ error_count_ = 0
    /\ warning_count_ = 0
    /\ emitted = <<>>
    /\ delivered = <<>>

can_emit_Inclusive(level) ==
    CASE level \in {"Error", "Fatal"} -> error_count_ <= options_.max_errors
      [] level = "Warning" -> warning_count_ <= options_.max_warnings
      [] OTHER -> TRUE

can_emit_FatalUnbudgeted(level) ==
    CASE level = "Error" -> error_count_ < options_.max_errors
      [] level = "Warning" -> warning_count_ < options_.max_warnings
      [] OTHER -> TRUE

\* DiagCtxt::can_emit
can_emit(level) ==
    CASE level \in {"Error", "Fatal"} -> error_count_ < options_.max_errors
      [] level = "Warning" -> warning_count_ < options_.max_warnings
      [] OTHER -> TRUE

Dispatch_Reversed(diag, errors, warnings) ==
    [i \in 1..Size(emitters_) |->
        [emitter |-> Size(emitters_) - i, diag |-> diag,
         error_count |-> errors, warning_count |-> warnings]]

\* The loop over emitters_ of DiagCtxt::emit: one DiagEmitter::emit call per
\* emitter, each recorded with the emitter's index, the Diag handed over and
\* the counters as they stand during the call.
Dispatch(diag, errors, warnings) ==
    [i \in 1..Size(emitters_) |->
        [emitter |-> i - 1, diag |-> diag,
         error_count |-> errors, warning_count |-> warnings]]

\* DiagCtxt::emit
emit(diag) ==
    /\ IF ~can_emit(diag.level)
       THEN UNCHANGED <<error_count_, warning_count_, delivered>>
       ELSE LET errors == IF diag.level \in {"Error", "Fatal"}
                          THEN error_count_ + 1 ELSE error_count_
                warnings == IF diag.level = "Warning"
                            THEN warning_count_ + 1 ELSE warning_count_
            IN  /\ error_count_' = errors
                /\ warning_count_' = warnings
                /\ delivered' = delivered \o Dispatch(diag, errors, warnings)
    /\ UNCHANGED <<options_, emitters_>>

\* DiagCtxt::add_emitter
add_emitter(emitter) ==
    /\ emitters_' = Append(emitters_, emitter)
    /\ UNCHANGED <<options_, error_count_, warning_count_, delivered>>

\* ========================================================= TerminalEmitter

\* The output is a sequence of lines, a line the sequence of the pieces
\* written to the stream before its "\n". A number is written in decimal.
Spaces(n) == [i \in 1..n |-> " "]

\* Non-ASCII glyphs are written by their code points.
BoxVertical == "U+2502"
BoxHorizontal == "U+2500"
BoxArcDownRight == "U+256D"
BoxArcUpRight == "U+2570"

\* TerminalStyle::get_style
get_style(level, use_colors) ==
    IF ~use_colors THEN ""
    ELSE CASE level \in {"Fatal", "Error"} -> "ESC[91m"
           [] level = "Warning" -> "ESC[93m"
           [] level = "Note" -> "ESC[94m"
           [] OTHER -> ""

\* TerminalStyle::RESET when colours are used
Reset == IF use_colors_ THEN "ESC[0m" ELSE ""

\* get_level_string
get_level_string(level) ==
    CASE level = "Fatal" -> "Fatal"
      [] level = "Error" -> "Error"
      [] level = "Warning" -> "Warning"
      [] level = "Note" -> "Note"
      [] OTHER -> "Unknown"

\* SourceFile::get_line
get_line(file, line_number) ==
    IF line_number = 0 \/ line_number > Size(file.line_starts) THEN None
    ELSE LET start == At(file.line_starts, line_number - 1)
             line_end == IF line_number < Size(file.line_starts)
                         THEN At(file.line_starts, line_number) - 1
                         ELSE Size(file.content)
             end == IF /\ line_end > start
                       /\ line_end <= Size(file.content)
                       /\ At(file.content, line_end - 1) = NL
                    THEN line_end - 1
                    ELSE line_end
         IN  Some(SubSeq(file.content, start + 1, end))

\* static_cast<u32>(std::log10(n)) + 1 for n >= 1: the decimal digits of n
RECURSIVE Digits(_)
Digits(n) == IF n < 10 THEN 1 ELSE 1 + Digits(n \div 10)

\* std::setw(width) << n
SetW(width, n) == Spaces(Max(width - Digits(n), 0)) \o <<ToString(n)>>

\* render_header
render_header(diag) ==
    LET style == get_style(diag.level, use_colors_)
    IN  IF diag.error_code.has
        THEN << <<style, "[", ToString(diag.error_code.value), "] ",
                  get_level_string(diag.level), ": ",
                  diag.primary_message, Reset>> >>
        ELSE << <<style, get_level_string(diag.level), ": ",
                  diag.primary_message, Reset>> >>

\* render_empty_line
render_empty_line(line_width) ==
    << <<" ">> \o Spaces(line_width)
       \o <<IF use_unicode_ THEN " " \o BoxVertical ELSE " |">> >>

\* The glyphs of the underline for a span_len
UnderlineGlyphs(span_len) ==
    LET underline_char == IF use_unicode_ THEN BoxHorizontal ELSE "-"
        pointer_char == IF use_unicode_ THEN BoxHorizontal ELSE "-"
    IN  IF span_len = 0
        THEN <<IF use_unicode_ THEN BoxVertical ELSE "|">>
        ELSE IF span_len = 1
             THEN <<pointer_char>>
             ELSE [i \in 1..span_len |->
                      IF i = span_len THEN pointer_char ELSE underline_char]

\* render_underline_with_width
render_underline_with_width(label, start_loc, end_loc, line_width) ==
    LET style == get_style(label.level, use_colors_)
        line_prefix == IF use_unicode_ THEN " " \o BoxVertical \o " " ELSE " | "
        span_len == IF end_loc.has /\ start_loc.line = end_loc.value.line
                    THEN IF end_loc.value.column > start_loc.column
                         THEN end_loc.value.column - start_loc.column
                         ELSE 1
                    ELSE 1
    IN  << <<" ">> \o Spaces(line_width) \o <<line_prefix>>
           \o Spaces(start_loc.column)
           \o <<style>> \o UnderlineGlyphs(span_len) \o <<Reset>>
           \o (IF label.text # "" THEN <<" ", label.text>> ELSE <<>>) >>

\* render_source_line_with_width
render_source_line_with_width(line_num, line_text, label, start_loc, end_loc, line_width) ==
    LET line_prefix == IF use_unicode_ THEN " " \o BoxVertical \o " " ELSE " | "
    IN  << <<" ">> \o SetW(line_width, line_num) \o <<line_prefix>>
           \o line_text >>
        \o (IF line_num = start_loc.line
            THEN render_underline_with_width(label, start_loc, end_loc,
                                             line_width)
            ELSE <<>>)

\* The loop over the lines start_line..end_line of render_label
RECURSIVE RenderLines(_, _, _, _, _, _, _)
RenderLines(current_line, end_line, source_file, label, location, end_location, max_line_width) ==
    IF current_line > end_line THEN <<>>
    ELSE LET line_content == get_line(source_file, current_line)
         IN  (IF line_content.has
              THEN render_source_line_with_width(current_line,
                       line_content.value, label, location, end_location,
                       max_line_width)
              ELSE <<>>)
             \o RenderLines(current_line + 1, end_line, source_file, label,
                            location, end_location, max_line_width)

\* render_label once the start location and its file are resolved
RenderResolvedLabel(label, is_primary, location, source_file) ==
    LET start_line == IF location.line > label.surrounding_lines
                      THEN location.line - label.surrounding_lines
                      ELSE 1
        end_location == lookup_location(label.span.end)
        end_line == IF end_location.has
                    THEN end_location.value.line + label.surrounding_lines
                    ELSE location.line + label.surrounding_lines
        max_line_width == Digits(end_line)
        top == <<" ">> \o Spaces(max_line_width)
               \o <<IF use_unicode_
                    THEN " " \o BoxArcDownRight \o BoxHorizontal \o "[ "
                    ELSE " +--[ ",
                    source_file.name, ":", ToString(location.line), ":",
                    ToString(location.column + 1), " ]">>
        bottom == <<" ">> \o Spaces(max_line_width)
                  \o <<IF use_unicode_
                       THEN " " \o BoxArcUpRight \o BoxHorizontal
                                \o BoxHorizontal \o BoxHorizontal
                       ELSE " ---+">>
    IN  (IF is_primary THEN <<top>> \o render_empty_line(max_line_width)
         ELSE <<>>)
        \o RenderLines(start_line, end_line, source_file, label, location,
                       end_location, max_line_width)
        \o (IF is_primary THEN <<bottom>> ELSE <<>>)

render_label_Unknown(label, is_primary) ==
    IF ~source_map_ THEN <<>>
    ELSE LET location == lookup_location(label.span.start)
         IN  IF ~location.has THEN << <<"<unknown>", label.text>> >>
             ELSE RenderResolvedLabel(label, is_primary, location.value,
                                      get_file(location.value.file).value)

\* render_label
render_label(label, is_primary) ==
    IF ~source_map_ THEN <<>>
    ELSE LET location == lookup_location(label.span.start)
         IN  IF ~location.has THEN <<>>
             ELSE LET source_file == get_file(location.value.file)
                  IN  IF ~source_file.has THEN <<>>
                      ELSE RenderResolvedLabel(label, is_primary,
                               location.value, source_file.value)

\* The results std::sort may leave for the comparison by span.start: every
\* arrangement of the labels with ascending starts (the order of labels with
\* equal starts is unspecified).
SortedLabels(labels) ==
    {sorted \in {[i \in 1..Len(labels) |-> labels[p[i]]] :
                     p \in Permutations(1..Len(labels))} :
        \A i \in 1..(Len(sorted) - 1) :
            sorted[i].span.start <= sorted[i + 1].span.start}

\* The loop of render_labels over sorted_labels: what each call writes
RenderLabelCalls(sorted_labels) ==
    [i \in 1..Len(sorted_labels) |-> render_label(sorted_labels[i], i = 1)]

RECURSIVE Flatten(_)
Flatten(blocks) ==
    IF blocks = <<>> THEN <<>> ELSE Head(blocks) \o Flatten(Tail(blocks))

\* render_labels, given the outcome of the sort
render_labels(sorted_labels) == Flatten(RenderLabelCalls(sorted_labels))

\* render_notes
render_notes(diag) ==
    [i \in 1..Len(diag.notes) |->
        <<get_style("Note", use_colors_), "note", Reset, ": ", diag.notes[i]>>]

\* TerminalEmitterImpl::emit, given the outcome of the sort
TerminalEmitter_emit(diag, sorted_labels) ==
    render_header(diag)
    \o (IF diag.labels # <<>> THEN render_labels(sorted_labels) ELSE <<>>)
    \o render_notes(diag)

\* create_terminal_emitter
TeInit ==
    /\ output_ = <<>>
    /\ use_colors_ \in BOOLEAN
    /\ use_unicode_ \in BOOLEAN
    /\ source_map_ \in BOOLEAN
    /\ te_diag = None
    /\ te_sorted = <<>>
    /\ te_blocks = <<>>

\* No emitter in use, for the specifications of the other components.
TeIdle ==
    /\ output_ = <<>>
    /\ use_colors_ = TRUE
    /\ use_unicode_ = TRUE
    /\ source_map_ = FALSE
    /\ te_diag = None
    /\ te_sorted = <<>>
    /\ te_blocks = <<>>

\* ================================================================== Parser

\* struct Token
Token(kind, start, end) == [kind |-> kind, start |-> start, end |-> end]

\* The token lists a Parser is built with: up to MaxTokens tokens of two
\* bytes, one byte apart.
TokenLists ==
    UNION {{[i \in 1..n |-> Token(kinds[i], 3 * (i - 1), 3 * (i - 1) + 2)] :
                kinds \in [1..n -> {"Id", "Plus"}]} : n \in 0..MaxTokens}

\* Parser::enter: cursor_stack_.push_back(cursor_)
Entered(stack) == Append(stack, cursor_)

\* Parser::exit: pop_back unless the stack is empty
Exited(stack) ==
    IF stack # <<>> THEN SubSeq(stack, 1, Len(stack) - 1) ELSE stack

\* Parser::enter
enter == cursor_stack_' = Entered(cursor_stack_)

\* Parser::exit
exit == cursor_stack_' = Exited(cursor_stack_)

\* Parser::Parser: cursor_(0), then enter()
PaInit ==
    /\ tokens_ \in TokenLists
    /\ start_pos_ \in {0, 1}
    /\ cursor_ = 0
    /\ cursor_stack_ = <<0>>
    /\ guards = <<>>
    /\ pa_call = "Parser"
    /\ pa_error = None

\* A Parser over no token, for the specifications of the other components.
PaIdle ==
    /\ tokens_ = <<>>
    /\ start_pos_ = 0
    /\ cursor_ = 0
    /\ cursor_stack_ = <<0>>
    /\ guards = <<>>
    /\ pa_call = "Parser"
    /\ pa_error = None

\* Parser::current_degree
current_degree == Size(cursor_stack_)

\* Parser::scoped_guard, ScopedGuard::ScopedGuard(Parser*): the guard returned
\* is constructed in place and calls enter().
scoped_guard ==
    /\ enter
    /\ guards' = Append(guards, [before |-> current_degree, moved |-> FALSE])
    /\ UNCHANGED <<tokens_, cursor_, start_pos_>>

\* ScopedGuard(ScopedGuard&&) = default: the new guard copies parser_ and
\* calls nothing; the guard moved from stays alive with its parser_.
ScopedGuard_move ==
    /\ guards' = Append(guards, [before |-> current_degree, moved |-> TRUE])
    /\ UNCHANGED <<tokens_, cursor_, cursor_stack_, start_pos_>>

\* ScopedGuard::~ScopedGuard of the guard constructed last: exit()
ScopedGuard_destroy ==
    /\ exit
    /\ guards' = SubSeq(guards, 1, Len(guards) - 1)
    /\ UNCHANGED <<tokens_, cursor_, start_pos_>>

\* Parser::next_token
next_token ==
    /\ cursor_' = IF cursor_ >= Size(tokens_) THEN cursor_ ELSE cursor_ + 1
    /\ UNCHANGED <<tokens_, cursor_stack_, start_pos_, guards>>

\* Span::with_offset
with_offset(span, offset) == Span(span.start + offset, span.end + offset)

\* Parser::current_span
current_span_at(stack) ==
    IF stack = <<>> THEN Span(0, 0)
    ELSE LET start == stack[Len(stack)]
             end == cursor_
             start_pos == IF start < Size(tokens_)
                          THEN At(tokens_, start).start ELSE 0
             end_pos == IF end < Size(tokens_) /\ end > 0
                        THEN At(tokens_, end - 1).end ELSE start_pos
         IN  with_offset(Span(start_pos, end_pos), start_pos_)

\* Parser::current_span on the parser's cursor stack
current_span == current_span_at(cursor_stack_)

\* Parser::peek
peek(expected) ==
    IF cursor_ + Size(expected) >= Size(tokens_) THEN FALSE
    ELSE \A i \in 0..(Size(expected) - 1) :
             At(tokens_, cursor_ + i).kind = At(expected, i)

\* What Parser::eat_token returns
eat_token_returns(expected) ==
    IF cursor_ >= Size(tokens_) THEN FALSE
    ELSE At(tokens_, cursor_).kind = expected

\* Parser::eat_token
eat_token(expected) ==
    /\ cursor_' = IF eat_token_returns(expected) THEN cursor_ + 1 ELSE cursor_
    /\ UNCHANGED <<tokens_, cursor_stack_, start_pos_, guards>>

\* Parser::eat_tokens
eat_tokens(amount) ==
    /\ cursor_' = IF cursor_ + amount > Size(tokens_)
                  THEN Size(tokens_) ELSE cursor_ + amount
    /\ UNCHANGED <<tokens_, cursor_stack_, start_pos_, guards>>

\* DiagCtxt::diag_builder, DiagBuilder::DiagBuilder
diag_builder(level, primary_message, primary_span) ==
    [level |-> level, error_code |-> None, primary_message |-> primary_message,
     primary_span |-> primary_span, labels |-> <<>>, notes |-> <<>>]

\* DiagBuilder::label with the default level
DiagBuilder_label(builder, span, text) ==
    [builder EXCEPT !.labels = Append(@, [span |-> span, text |-> text,
                                          level |-> "Error",
                                          surrounding_lines |-> 1])]

\* The Diag that ParseError::emit builds
ParseError_diag(error) ==
    DiagBuilder_label(diag_builder(error.level, error.message, error.span),
                      error.span, error.message)

\* ParseError::emit, DiagBuilder::emit
ParseError_emit(error) ==
    /\ emit(ParseError_diag(error))
    /\ emitted' = Append(emitted, ParseError_diag(error))

\* try_file_scope returning the sentinel index.
try_file_scope_result_Sentinel == [ok |-> TRUE, value |-> 0]

\* Parser::try_file_scope returns the index of the node it adds.
try_file_scope_result == [ok |-> TRUE, value |-> NewNodeIndex]

\* Parser::try_file_scope: the guard enters, the FileScope node is added with
\* the span current_span() gives inside the scope, the guard exits.
try_file_scope ==
    LET builder == [kind |-> "FileScope",
                    span |-> current_span_at(Entered(cursor_stack_)),
                    children |-> <<>>]
    IN  /\ add_node(builder)
        /\ cursor_stack_' = Exited(Entered(cursor_stack_))
        /\ UNCHANGED <<tokens_, cursor_, start_pos_, guards>>

\* Parser::parse
parse ==
    LET result == try_file_scope_result
    IN  /\ try_file_scope
        /\ IF result.ok
           THEN /\ set_root(result.value)
                /\ UNCHANGED dgVars
           ELSE /\ ParseError_emit(result.error)
                /\ UNCHANGED <<root_, set_root_arg>>

\* ===================================================================== Vfs

\* VfsNode of a directory and of a file; a file node is constructed with
\* source_file_id and ast empty. A std::unique_ptr<Ast> is "nullptr" or the
\* name of the Ast it owns.
DirectoryNode == [type |-> "Directory"]
FileNode(source_file_id, ast) ==
    [type |-> "File", source_file_id |-> source_file_id, ast |-> ast]

\* A Vfs as build_from_fs returns it: the root directory and the nodes
\* scan_directory added, no file linked.
VfsInit ==
    /\ vfs_nodes_ \in {<<DirectoryNode>> \o below :
                          below \in SeqsUpTo({DirectoryNode, FileNode(None, None)},
                                             MaxVfsNodes)}
    /\ vfs_call = [op |-> "none"]
    /\ vfs_ret = None
    /\ vfs_set = [n \in {} |-> None]

\* A Vfs of the root alone, for the specifications of the other components.
VfsIdle ==
    /\ vfs_nodes_ = <<DirectoryNode>>
    /\ vfs_call = [op |-> "none"]
    /\ vfs_ret = None
    /\ vfs_set = [n \in {} |-> None]

\* Vfs::get_node, Vfs::get_node_mut
vfs_get_node(node_id) ==
    IF node_id >= Size(vfs_nodes_) THEN None ELSE Some(At(vfs_nodes_, node_id))

\* Vfs::get_source_file_id
get_source_file_id(node_id) ==
    LET node == vfs_get_node(node_id) IN
    IF ~node.has \/ node.value.type # "File" THEN None
    ELSE node.value.source_file_id

\* Vfs::set_source_file_id
set_source_file_id(node_id, source_file_id) ==
    LET node == vfs_get_node(node_id) IN
    IF ~node.has \/ node.value.type # "File"
    THEN /\ vfs_ret' = FALSE
         /\ UNCHANGED vfs_nodes_
    ELSE /\ vfs_nodes_' = [vfs_nodes_ EXCEPT ![node_id + 1].source_file_id =
                                                  Some(source_file_id)]
         /\ vfs_ret' = TRUE

get_ast_NoNullCheck(node_id) ==
    LET node == vfs_get_node(node_id) IN
    IF ~node.has \/ node.value.type # "File" THEN None
    ELSE node.value.ast

\* Vfs::get_ast
get_ast(node_id) ==
    LET node == vfs_get_node(node_id) IN
    IF ~node.has \/ node.value.type # "File" THEN None
    ELSE IF node.value.ast.has /\ node.value.ast.value # "nullptr"
         THEN Some(node.value.ast.value)
         ELSE None

\* Vfs::set_ast
set_ast(node_id, ast) ==
    LET node == vfs_get_node(node_id) IN
    IF ~node.has \/ node.value.type # "File"
    THEN /\ vfs_ret' = FALSE
         /\ UNCHANGED vfs_nodes_
    ELSE /\ vfs_nodes_' = [vfs_nodes_ EXCEPT ![node_id + 1].ast = Some(ast)]
         /\ vfs_ret' = TRUE

\* =================================================================== Lexer

\* The character classes of <cctype> in the "C" locale: SpaceChars is
\* std::isspace, HexDigits std::isxdigit, DecDigits std::isdigit.
Lower == {"a", "b", "c", "d", "e", "f", "g", "h", "i", "j", "k", "l", "m",
          "n", "o", "p", "q", "r", "s", "t", "u", "v", "w", "x", "y", "z"}
Upper == {"A", "B", "C", "D", "E", "F", "G", "H", "I", "J", "K", "L", "M",
          "N", "O", "P", "Q", "R", "S", "T", "U", "V", "W", "X", "Y", "Z"}
DecDigits == {"0", "1", "2", "3", "4", "5", "6", "7", "8", "9"}
SpaceChars == {" ", "\t", "\n", "\r", "\f"}
HexDigits == DecDigits \cup {"a", "b", "c", "d", "e", "f", "A", "B", "C", "D", "E", "F"}
isalpha(ch) == ch \in Lower \cup Upper
isdigit(ch) == ch \in DecDigits

\* The grave accent, written by its code point.
GraveAccent == "U+0060"

\* The chars the inputs are made of: white space, letters, digits, an
\* underscore, operator and quote characters, and the grave accent, which no
\* case of Lexer::next names.
LexAlphabet ==
    {" ", "b", "e", "x", "o", "_", "0", "1", "8", ".", "+", "=", "\"", "'",
     "\\", GraveAccent}

\* Lexer::Lexer
LexInit ==
    /\ src \in SeqsUpTo(LexAlphabet, MaxSrcLen)
    /\ cursor = 0
    /\ lex_ret = None

\* A Lexer over the empty input, for the specifications of the other
\* components.
LexIdle ==
    /\ src = <<>>
    /\ cursor = 0
    /\ lex_ret = None

\* What a function of the Lexer leaves: the token returned and the cursor.
Lexed(token, c) == [token |-> token, cursor |-> c]

\* while (c < src.size() && src[c] is one of chars) c++
RECURSIVE SkipWhile(_, _)
SkipWhile(c, chars) ==
    IF c < Size(src) /\ At(src, c) \in chars THEN SkipWhile(c + 1, chars) ELSE c

\* Lexer::current_char at cursor c
current_char(c) == IF c >= Size(src) THEN None ELSE Some(At(src, c))

\* Lexer::peek at cursor c; str is a sequence of chars
Lexer_peek(c, str) ==
    IF c + Size(str) > Size(src) THEN FALSE
    ELSE SubSeq(src, c + 1, c + Size(str)) = str

\* The chars of a std::string_view as one string.
RECURSIVE Joined(_)
Joined(chars) ==
    IF chars = <<>> THEN "" ELSE Head(chars) \o Joined(Tail(chars))

\* The KEYWORD lines of Lexer::is_keyword: <<keyword, kind>>
Keywords ==
    {<<"and", "And">>, <<"as", "As">>, <<"bool", "Bool">>,
     <<"break", "Break">>, <<"catch", "Catch">>, <<"const", "Const">>,
     <<"continue", "Continue">>, <<"else", "Else">>, <<"enum", "Enum">>,
     <<"error", "Error">>, <<"extern", "Extern">>, <<"false", "False">>,
     <<"fn", "Fn">>, <<"for", "For">>, <<"if", "If">>, <<"in", "In">>,
     <<"inline", "Inline">>, <<"is", "Is">>, <<"let", "Let">>,
     <<"match", "Match">>, <<"mod", "Mod">>, <<"newtype", "Newtype">>,
     <<"not", "Not">>, <<"null", "Null">>, <<"or", "Or">>,
     <<"private", "Private">>, <<"ref", "Ref">>, <<"return", "Return">>,
     <<"self", "SelfLower">>, <<"Self", "SelfCap">>, <<"static", "Static">>,
     <<"struct", "Struct">>, <<"test", "Test">>, <<"true", "True">>,
     <<"typealias", "Typealias">>, <<"union", "Union">>, <<"use", "Use">>,
     <<"when", "When">>, <<"while", "While">>}

\* Lexer::is_keyword
is_keyword(ident) ==
    IF \E k \in Keywords : k[1] = ident
    THEN Some((CHOOSE k \in Keywords : k[1] = ident)[2])
    ELSE None

\* Lexer::recognize_identifier from cursor c
recognize_identifier(c) ==
    LET start == c
        end == SkipWhile(c, Lower \cup Upper \cup DecDigits \cup {"_"})
        keyword == is_keyword(Joined(SubSeq(src, start + 1, end)))
    IN  IF keyword.has THEN Lexed(Token(keyword.value, start, end), end)
        ELSE Lexed(Token("Id", start, end), end)

\* The loop of recognize_string_literal: up to the closing quote, an escape
\* sequence skipped as two chars.
RECURSIVE StringBody(_)
StringBody(c) ==
    IF c < Size(src) /\ At(src, c) # "\""
    THEN IF At(src, c) = "\\" /\ c + 1 < Size(src)
         THEN StringBody(c + 2)
         ELSE StringBody(c + 1)
    ELSE c

\* Lexer::recognize_string_literal from cursor c
recognize_string_literal(c) ==
    LET start == c
        body == StringBody(c + 1)
        end == IF body < Size(src) THEN body + 1 ELSE body
    IN  Lexed(Token("Str", start, end), end)

\* Whether the number at c starts with 0 and one of the two letters.
HasRadixPrefix(c, letters) ==
    At(src, c) = "0" /\ c + 1 < Size(src) /\ At(src, c + 1) \in letters

\* Lexer::recognize_number from cursor c
recognize_number(c) ==
    LET start == c IN
    IF HasRadixPrefix(c, {"b", "B"})
    THEN LET end == SkipWhile(c + 2, {"0", "1"})
         IN  Lexed(Token("IntBin", start, end), end)
    ELSE IF HasRadixPrefix(c, {"o", "O"})
    THEN LET end == SkipWhile(c + 2, {"0", "1", "2", "3", "4", "5", "6", "7"})
         IN  Lexed(Token("IntOct", start, end), end)
    ELSE IF HasRadixPrefix(c, {"x", "X"})
    THEN LET end == SkipWhile(c + 2, HexDigits)
         IN  Lexed(Token("IntHex", start, end), end)
    ELSE LET int_end == SkipWhile(c, DecDigits) IN
         IF int_end < Size(src) /\ At(src, int_end) = "."
         THEN LET frac_end == SkipWhile(int_end + 1, DecDigits) IN
              IF frac_end < Size(src) /\ At(src, frac_end) \in {"e", "E"}
              THEN LET e_end == frac_end + 1
                       sign_end == IF e_end < Size(src) /\ At(src, e_end) \in {"+", "-"}
                                   THEN e_end + 1 ELSE e_end
                       end == SkipWhile(sign_end, DecDigits)
                   IN  Lexed(Token("RealSci", start, end), end)
              ELSE Lexed(Token("Real", start, frac_end), frac_end)
         ELSE Lexed(Token("Int", start, int_end), int_end)

\* Lexer::recognize_char from cursor c
recognize_char(c) ==
    LET start == c
        opened == c + 1
        skipped == IF opened < Size(src) /\ At(src, opened) = "\\"
                   THEN opened + 2 ELSE opened + 1
        end == IF skipped < Size(src) /\ At(src, skipped) = "'"
               THEN skipped + 1 ELSE skipped
    IN  Lexed(Token("Char", start, end), end)

\* The SINGLE_TOKEN cases of Lexer::next: <<char, kind>>
SingleTokens ==
    {<<".", "Dot">>, <<":", "Colon">>, <<";", "Semi">>, <<",", "Comma">>,
     <<"(", "LParen">>, <<")", "RParen">>, <<"{", "LBrace">>,
     <<"}", "RBrace">>, <<"[", "LBracket">>, <<"]", "RBracket">>,
     <<"~", "Tilde">>, <<"|", "Pipe">>, <<"#", "Hash">>,
     <<"?", "Question">>, <<"\\", "Backslash">>, <<"&", "Ampersand">>,
     <<"^", "Caret">>, <<"$", "Dollar">>, <<"@", "At">>}

\* The operator cases of Lexer::next: the first char, the two-char tokens
\* tried in order as <<second char, kind>>, and the kind of the char alone.
OperatorCases ==
    {<<"+", <<<<"=", "PlusEq">>, <<"+", "PlusPlus">>>>, "Plus">>,
     <<"-", <<<<">", "Arrow">>, <<"=", "MinusEq">>>>, "Minus">>,
     <<"*", <<<<"=", "StarEq">>>>, "Star">>,
     <<"/", <<<<"=", "SlashEq">>>>, "Slash">>,
     <<"%", <<<<"=", "PercentEq">>>>, "Percent">>,
     <<"<", <<<<"=", "LtEq">>>>, "Lt">>,
     <<">", <<<<"=", "GtEq">>>>, "Gt">>,
     <<"=", <<<<">", "FatArrow">>, <<"=", "EqEq">>>>, "Eq">>,
     <<"!", <<<<"=", "BangEq">>>>, "Bang">>}

\* The token of an operator case at cursor c.
RECURSIVE OperatorToken(_, _, _, _)
OperatorToken(c, first, seconds, alone) ==
    IF seconds = <<>> THEN Token(alone, c, c + 1)
    ELSE IF Lexer_peek(c, <<first, Head(seconds)[1]>>)
         THEN Token(Head(seconds)[2], c, c + 2)
         ELSE OperatorToken(c, first, Tail(seconds), alone)

\* The default case of Lexer::next: a token that takes no char.
InvalidToken(c) == Token("Invalid", c, c)

\* Lexer::next: the token returned and the cursor left.
next ==
    LET c == SkipWhile(cursor, SpaceChars)
        ch == current_char(c)
    IN  IF ~ch.has THEN Lexed(Token("Eof", c, c), c)
        ELSE IF ch.value = "\"" THEN recognize_string_literal(c)
        ELSE IF ch.value = "'" THEN recognize_char(c)
        ELSE LET token ==
                 IF \E st \in SingleTokens : st[1] = ch.value
                 THEN Token((CHOOSE st \in SingleTokens : st[1] = ch.value)[2], c, c + 1)
                 ELSE IF \E oc \in OperatorCases : oc[1] = ch.value
                 THEN LET oc == CHOOSE oc \in OperatorCases : oc[1] = ch.value
                      IN  OperatorToken(c, oc[1], oc[2], oc[3])
                 ELSE InvalidToken(c)
             IN  IF token.kind = "Invalid" /\ (isalpha(ch.value) \/ ch.value = "_")
                 THEN recognize_identifier(c)
                 ELSE IF token.kind = "Invalid" /\ isdigit(ch.value)
                 THEN recognize_number(c)
                 ELSE Lexed(token, token.end)

\* ========================================================== specifications

\* The names and contents the calls of the model pass: a content never takes
\* the total length past MaxTotal.
Names == {"a.txt", "b.txt", "c.txt"}
Contents == SeqsUpTo(Alphabet, MaxTotal - next_start_pos)

AddNode ==
    /\ Size(nodes_) <= MaxNodes
    /\ \E h \in BuilderHeads, cs \in BuilderChildren :
           add_node([kind |-> h.kind, span |-> h.span, children |-> cs])
    /\ UNCHANGED <<root_, set_root_arg>>
    /\ UNCHANGED NotAst

SetRoot ==
    /\ \E i \in 0..MaxNodes : set_root(i)
    /\ UNCHANGED <<nodes_, spans_, children_start_, children_, builders, add_ret>>
    /\ UNCHANGED NotAst

AstNext == AddNode \/ SetRoot

InitAst == AstInit /\ NtIdle /\ SmInit /\ DgIdle /\ TeIdle /\ PaIdle /\ VfsIdle /\ LexIdle

SpecAst == InitAst /\ [][AstNext]_vars

GetNodeType ==
    /\ nt_type = None
    /\ nt_type' = Some(get_node_type(nt_kind))
    /\ UNCHANGED <<nt_kind, NotNodeType>>

NtNext == GetNodeType

InitNodeType == NtInit /\ AstInit /\ SmInit /\ DgIdle /\ TeIdle /\ PaIdle /\ VfsIdle /\ LexIdle

SpecNodeType == InitNodeType /\ [][NtNext]_vars

AddFile ==
    /\ \E name \in Names, content \in Contents :
           /\ add_file(name, content)
           /\ sm_call' = [op |-> "add_file", name |-> name, content |-> Some(content)]
    /\ UNCHANGED sm_load_failed
    /\ UNCHANGED NotSourceMap

\* load_file on a file system that may hold any content under any path.
LoadFile ==
    /\ \E path \in Names, read \in {None} \cup {Some(c) : c \in Contents} :
           /\ load_file(path, read)
           /\ sm_call' = [op |-> "load_file", name |-> path,
                          content |-> IF Registered(path) THEN None ELSE read]
           /\ sm_load_failed' = (sm_load_failed \/ (~Registered(path) /\ ~read.has))
    /\ UNCHANGED NotSourceMap

SmNext == AddFile \/ LoadFile

InitSourceMap == SmInit /\ AstInit /\ NtIdle /\ DgIdle /\ TeIdle /\ PaIdle /\ VfsIdle /\ LexIdle

SpecSourceMap == InitSourceMap /\ [][SmNext]_vars

\* The source map filled by add_file alone: every value of files_,
\* file_id_map_ and next_start_pos_ the program reaches, for the claims about
\* the const lookups that read nothing else.
SmFilesNext == AddFile

SpecSourceFiles == InitSourceMap /\ [][SmFilesNext]_vars

\* A Diag stands for its level and its content; the content is told apart by
\* the number of the emit call that carries it.
Emit ==
    /\ Size(emitted) < MaxEmits
    /\ \E level \in DiagLevels :
           LET diag == [level |-> level, id |-> Size(emitted) + 1]
           IN  /\ emit(diag)
               /\ emitted' = Append(emitted, diag)
    /\ UNCHANGED NotDiag

\* An emitter is told apart by the number of emit calls made before it was
\* registered.
AddEmitter ==
    /\ Size(emitters_) < MaxEmitters
    /\ add_emitter([registered_after |-> Size(emitted)])
    /\ UNCHANGED emitted
    /\ UNCHANGED NotDiag

DgNext == Emit \/ AddEmitter

InitDiag == DgInit /\ AstInit /\ NtIdle /\ SmInit /\ TeIdle /\ PaIdle /\ VfsIdle /\ LexIdle

SpecDiag == InitDiag /\ [][DgNext]_vars

\* The files given to the SourceMap the emitter reads.
TeContent(name) ==
    IF name = "a.txt" THEN <<"x", NL, "x", "x">> ELSE <<"x">>

TeAddFile ==
    /\ te_diag = None
    /\ \E name \in {"a.txt", "b.txt"} :
           /\ ~Registered(name)
           /\ add_file(name, TeContent(name))
           /\ sm_call' = [op |-> "add_file", name |-> name,
                          content |-> Some(TeContent(name))]
    /\ UNCHANGED sm_load_failed
    /\ UNCHANGED <<teVars, NotTerminalEmitter>>

\* The labels of the Diags rendered: empty and non-empty spans, within a
\* line, across lines, up to the end of a file, and past every file.
TeLabels ==
    {[span |-> span, text |-> "t", level |-> "Error", surrounding_lines |-> 1] :
        span \in {Span(0, 0), Span(0, 1), Span(1, 3), Span(2, 4), Span(7, 8)}}

\* The Diags rendered.
TeDiags ==
    {[level |-> level, error_code |-> code, primary_message |-> "m",
      labels |-> labels, notes |-> [i \in 1..n |-> "n" \o ToString(i)]] :
        level \in DiagLevels, code \in {None, Some(7)},
        labels \in SeqsUpTo(TeLabels, MaxLabels), n \in 0..MaxNotes}

\* One emit call per behaviour: emit reads nothing an earlier call wrote.
TeEmit ==
    /\ te_diag = None
    /\ \E diag \in TeDiags :
           \E sorted_labels \in SortedLabels(diag.labels) :
               /\ output_' = TerminalEmitter_emit(diag, sorted_labels)
               /\ te_diag' = Some(diag)
               /\ te_sorted' = sorted_labels
               /\ te_blocks' = RenderLabelCalls(sorted_labels)
    /\ UNCHANGED <<use_colors_, use_unicode_, source_map_>>
    /\ UNCHANGED <<smVars, NotTerminalEmitter>>

TeNext == TeAddFile \/ TeEmit

InitTerminalEmitter == TeInit /\ SmInit /\ AstInit /\ NtIdle /\ DgIdle /\ PaIdle /\ VfsIdle /\ LexIdle

SpecTerminalEmitter == InitTerminalEmitter /\ [][TeNext]_vars

\* The Parser used through guards: scopes open and close in nested order,
\* by return or by an error return, tokens are consumed in between.
ScopedGuardCreate ==
    /\ Size(guards) < MaxGuards
    /\ scoped_guard
    /\ pa_call' = "scoped_guard"
    /\ UNCHANGED pa_error
    /\ UNCHANGED NotParser

ScopedGuardMove ==
    /\ guards # <<>>
    /\ Size(guards) < MaxGuards
    /\ ScopedGuard_move
    /\ pa_call' = "ScopedGuard(ScopedGuard&&)"
    /\ UNCHANGED pa_error
    /\ UNCHANGED NotParser

ScopedGuardDestroy ==
    /\ guards # <<>>
    /\ ScopedGuard_destroy
    /\ pa_call' \in {"~ScopedGuard on return", "~ScopedGuard on error return"}
    /\ UNCHANGED pa_error
    /\ UNCHANGED NotParser

NextToken ==
    /\ next_token
    /\ pa_call' = "next_token"
    /\ UNCHANGED pa_error
    /\ UNCHANGED NotParser

PaGuardNext ==
    ScopedGuardCreate \/ ScopedGuardMove \/ ScopedGuardDestroy \/ NextToken

InitParser == PaInit /\ AstInit /\ NtIdle /\ SmInit /\ DgIdle /\ TeIdle /\ VfsIdle /\ LexIdle

SpecParserGuards == InitParser /\ [][PaGuardNext]_vars

\* The Parser used through its public cursor operations.
Enter ==
    /\ current_degree < MaxDepth
    /\ enter
    /\ pa_call' = "enter"
    /\ UNCHANGED pa_error
    /\ UNCHANGED <<tokens_, cursor_, start_pos_, guards>>
    /\ UNCHANGED NotParser

Exit ==
    /\ exit
    /\ pa_call' = "exit"
    /\ UNCHANGED pa_error
    /\ UNCHANGED <<tokens_, cursor_, start_pos_, guards>>
    /\ UNCHANGED NotParser

EatToken ==
    /\ \E expected \in {"Id", "Plus"} : eat_token(expected)
    /\ pa_call' = "eat_token"
    /\ UNCHANGED pa_error
    /\ UNCHANGED NotParser

EatTokens ==
    /\ \E amount \in 0..MaxTokens : eat_tokens(amount)
    /\ pa_call' = "eat_tokens"
    /\ UNCHANGED pa_error
    /\ UNCHANGED NotParser

\* The Parser parsing: parse is called at any cursor position and scope
\* depth, and one ParseError per behaviour is emitted to the DiagCtxt, whose
\* default ceilings let every emit through.
ParseErrors ==
    {[span |-> span, message |-> "e", level |-> level] :
        span \in {Span(0, 2), Span(3, 5)}, level \in DiagLevels}

Parse ==
    /\ Size(nodes_) <= MaxNodes
    /\ parse
    /\ pa_call' = "parse"
    /\ UNCHANGED pa_error
    /\ UNCHANGED <<ntVars, smVars, teVars, vfsVars, lexVars>>

ParseErrorEmit ==
    /\ pa_error = None
    /\ \E error \in ParseErrors :
           /\ ParseError_emit(error)
           /\ pa_error' = Some(error)
    /\ pa_call' = "ParseError::emit"
    /\ UNCHANGED <<tokens_, cursor_, cursor_stack_, start_pos_, guards>>
    /\ UNCHANGED <<astVars, ntVars, smVars, teVars, vfsVars, lexVars>>

PaParseNext == Parse \/ ParseErrorEmit \/ Enter \/ Exit \/ NextToken

SpecParse == InitParser /\ [][PaParseNext]_vars

PaCursorNext == Enter \/ Exit \/ NextToken \/ EatToken \/ EatTokens

SpecParserCursor == InitParser /\ [][PaCursorNext]_vars

\* The node ids the Vfs is asked about: every node and one id past the last.
VfsNodeIds == 0..Size(vfs_nodes_)

\* What the setters have passed for a node: nothing before the first
\* successful call.
VfsSet(node_id) ==
    IF node_id \in DOMAIN vfs_set THEN vfs_set[node_id]
    ELSE [source_file_id |-> None, ast |-> None]

SetSourceFileId ==
    /\ \E node_id \in VfsNodeIds, id \in {0, 1} :
           /\ set_source_file_id(node_id, id)
           /\ vfs_call' = [op |-> "set_source_file_id", node_id |-> node_id,
                           value |-> id]
           /\ vfs_set' = IF vfs_ret'
                         THEN [n \in DOMAIN vfs_set \cup {node_id} |->
                                  IF n = node_id
                                  THEN [VfsSet(n) EXCEPT !.source_file_id = Some(id)]
                                  ELSE vfs_set[n]]
                         ELSE vfs_set
    /\ UNCHANGED NotVfs

SetAst ==
    /\ \E node_id \in VfsNodeIds, ast \in {"nullptr", "ast1", "ast2"} :
           /\ set_ast(node_id, ast)
           /\ vfs_call' = [op |-> "set_ast", node_id |-> node_id, value |-> ast]
           /\ vfs_set' = IF vfs_ret'
                         THEN [n \in DOMAIN vfs_set \cup {node_id} |->
                                  IF n = node_id
                                  THEN [VfsSet(n) EXCEPT !.ast = Some(ast)]
                                  ELSE vfs_set[n]]
                         ELSE vfs_set
    /\ UNCHANGED NotVfs

VfsNext == SetSourceFileId \/ SetAst

InitVfs == PaIdle /\ AstInit /\ NtIdle /\ SmInit /\ DgIdle /\ TeIdle /\ VfsInit /\ LexIdle

SpecVfs == InitVfs /\ [][VfsNext]_vars

\* The Lexer: next is called again and again on one input.
LexNext ==
    /\ cursor' = next.cursor
    /\ lex_ret' = Some(next.token)
    /\ UNCHANGED src
    /\ UNCHANGED NotLexer

InitLexer == LexInit /\ AstInit /\ NtIdle /\ SmInit /\ DgIdle /\ TeIdle /\ PaIdle /\ VfsIdle

SpecLexer == InitLexer /\ [][LexNext]_vars

\* Every call of next is taken in the end.
FairSpecLexer == SpecLexer /\ WF_vars(LexNext)

\* ------------------------------------------------------------ Ast, claims

\* The indices of the real nodes.
RealNodes == 1..(Size(nodes_) - 1)

\* C1: for every real node i the children view of get_node(i) /
\* get_children(i) has exactly one entry per child slot of the node's
\* builder, in builder order (a single child's entry is its NodeIndex), in
\* every state, so also after every later add_node.
C1_ChildrenViewFixed ==
    \A i \in RealNodes :
        LET slots == builders[i].children
            view == get_children(i)
        IN  /\ get_node(i).value.children = view
            /\ Len(view) = Len(slots)
            /\ \A j \in 1..Len(slots) :
                   slots[j].kind = "Single" => view[j] = slots[j].index

\* C2: for every node whose builder has a variable-length group of size k in
\* slot j, get_multi_child_slice of entry j of the node's children view
\* returns exactly the k indices of the group in insertion order, in every
\* state, so also after every later add_node.
C2_MultiChildRoundTrip ==
    \A i \in RealNodes :
        LET slots == builders[i].children
            view == get_children(i)
        IN  \A j \in 1..Len(slots) :
                slots[j].kind = "Multiple" =>
                    /\ j <= Len(view)
                    /\ get_multi_child_slice(view[j]) = Some(slots[j].indices)

\* A node with a non-empty group has been followed by a node with children.
C2_Witness ==
    \E i \in RealNodes : \E j \in 1..Len(builders[i].children) :
        /\ builders[i].children[j].kind = "Multiple"
        /\ Len(builders[i].children[j].indices) >= 1
        /\ \E m \in RealNodes : m > i /\ builders[m].children # <<>>

\* C3: the n-th add_node call returns n (so the returned indices start at 1
\* and increase strictly), n is the node count before the call, every call
\* stored a node, and get_node(n) returns the builder's kind and span.
C3_AddNodeIndex ==
    /\ Len(add_ret) = Len(builders)
    /\ Size(nodes_) = Len(builders) + 1
    /\ Size(spans_) = Size(nodes_)
    /\ Size(children_start_) = Size(nodes_)
    /\ \A n \in 1..Len(add_ret) :
           /\ add_ret[n] = n
           /\ get_node(n).has
           /\ get_node(n).value.kind = builders[n].kind
           /\ get_node(n).value.span = builders[n].span
           /\ get_node_kind(n) = Some(builders[n].kind)
           /\ get_span(n) = Some(builders[n].span)

\* Three nodes were added, with different kinds and spans.
C3_Witness ==
    /\ Len(add_ret) = 3
    /\ builders[1].kind # builders[2].kind
    /\ builders[2].span # builders[3].span

\* The indices an accessor is asked for: every valid one and some past the end.
ProbeIndices(v) == 0..(Size(v) + 2)

\* C4: get_node, get_node_kind and get_span are absent, and get_children is
\* empty, for index 0 and every index >= the node count; they are present
\* for every other index; get_multi_child_slice is absent when its position
\* is 0, is >= the child-buffer length, or when position + 1 + count runs
\* past the end of the child buffer, and present otherwise.
C4_AccessorsAbsent ==
    /\ \A i \in ProbeIndices(nodes_) :
           IF i = 0 \/ i >= Size(nodes_)
           THEN /\ get_node(i) = None
                /\ get_node_kind(i) = None
                /\ get_span(i) = None
                /\ get_children(i) = <<>>
           ELSE /\ get_node(i).has
                /\ get_node_kind(i).has
                /\ get_span(i).has
    /\ \A pos \in ProbeIndices(children_) :
           IF \/ pos = 0
              \/ pos >= Size(children_)
              \/ pos + 1 + At(children_, pos) > Size(children_)
           THEN get_multi_child_slice(pos) = None
           ELSE get_multi_child_slice(pos).has

\* Some position inside the child buffer holds a count that overruns it, and
\* another one resolves to a group.
C4_Witness ==
    /\ Size(nodes_) > 2
    /\ \E pos \in 1..(Size(children_) - 1) :
           /\ pos + 1 + At(children_, pos) > Size(children_)
           /\ get_multi_child_slice(pos) = None
    /\ \E pos \in 1..(Size(children_) - 1) :
           /\ get_multi_child_slice(pos).has
           /\ get_multi_child_slice(pos).value # <<>>

\* What C5 says of a state: the root is the sentinel before any set_root
\* call and the last set_root argument after one.
RootIsLastSet ==
    root = IF set_root_arg.has THEN set_root_arg.value ELSE 0

\* What C5 says of a step: add_node leaves the root alone, and a step that is
\* no add_node (a set_root) leaves all node, span and child data alone.
RootFrame ==
    /\ builders' # builders => root_' = root_
    /\ builders' = builders =>
           UNCHANGED <<nodes_, spans_, children_start_, children_>>

\* C5: root() is 0 in every state reached without a set_root call, whatever
\* add_node calls happened; after set_root(i) it is i; add_node never changes
\* the root and set_root never changes node, span or child data.
C5_RootDefaultAndFrame == [](RootIsLastSet) /\ [][RootFrame]_vars

\* The root was set to a real node and a node with children was added.
C5_Witness ==
    /\ set_root_arg.has
    /\ set_root_arg.value = 2
    /\ root = 2
    /\ Size(nodes_) = 4
    /\ Size(children_) > 1

\* ------------------------------------------------------- NodeType, claims

\* C6: every NodeKind has its own case label in get_node_type, none obtains
\* its shape from the default label, and Add is DoubleChildren, Call is
\* SingleWithMultiChildren, Block is MultiChildren.
C6_NodeTypeExhaustive ==
    nt_type.has =>
        /\ NodeTypeArm(nt_kind) # 0
        /\ nt_kind = "Add" => nt_type.value = "DoubleChildren"
        /\ nt_kind = "Call" => nt_type.value = "SingleWithMultiChildren"
        /\ nt_kind = "Block" => nt_type.value = "MultiChildren"

\* ------------------------------------------------------ SourceMap, claims

\* The FileIds of the registered files.
FileIds == 0..(Size(files) - 1)

\* The sum of the byte lengths of files 0..i-1.
RECURSIVE SumOfLengths(_)
SumOfLengths(i) ==
    IF i = 0 THEN 0 ELSE SumOfLengths(i - 1) + Size(At(files, i - 1).content)

\* The global range [start_pos, start_pos + len) of file i.
GlobalRange(i) ==
    {p \in 0..(next_start_pos + 2) :
        /\ At(files, i).start_pos <= p
        /\ p < At(files, i).start_pos + Size(At(files, i).content)}

\* What C7 says of a state.
OffsetsByConcatenation ==
    /\ \A i \in FileIds : At(files, i).start_pos = SumOfLengths(i)
    /\ \A i, j \in FileIds : i # j => GlobalRange(i) \cap GlobalRange(j) = {}
    /\ DOMAIN file_id_map = {At(files, i).name : i \in FileIds}
    /\ \A i \in FileIds : file_id_map[At(files, i).name] = i

\* What C7 says of a step: a registered file keeps its id, start_pos, content
\* and line_starts, and a file that is registered gets the next index.
RegisteredFilesKept ==
    /\ Size(files') >= Size(files)
    /\ \A i \in FileIds :
           /\ At(files', i) = At(files, i)
           /\ file_id_map'[At(files, i).name] = file_id_map[At(files, i).name]
    /\ Size(files') > Size(files) =>
           /\ Size(files') = Size(files) + 1
           /\ sm_ret' = Some(Size(files))

\* C7: after any sequence of add_file / load_file calls, file i's start_pos
\* is the sum of the byte lengths of files 0..i-1, the global ranges are
\* pairwise disjoint, the FileIds are the registration indices 0, 1, 2, ...,
\* and no later registration changes a registered file's id, start_pos,
\* content or line_starts.
C7_GlobalOffsets == [](OffsetsByConcatenation) /\ [][RegisteredFilesKept]_vars

\* Three files are registered, two of them non-empty, the last by load_file.
C7_Witness ==
    /\ Size(files) = 3
    /\ sm_call.op = "load_file"
    /\ sm_ret = Some(2)
    /\ At(files, 1).start_pos > 0
    /\ At(files, 2).start_pos > At(files, 1).start_pos

\* What C8 says of a step: an add_file call with a registered name returns
\* that name's FileId and changes nothing.
AddFileAgainKeeps ==
    (sm_call'.op = "add_file" /\ sm_call'.name \in DOMAIN file_id_map) =>
        /\ sm_ret' = Some(file_id_map[sm_call'.name])
        /\ files' = files
        /\ file_id_map' = file_id_map
        /\ next_start_pos' = next_start_pos

\* C8: add_file with an already registered name returns the existing FileId
\* and changes nothing (file count, next_start_pos, stored content), also
\* when the call supplies different content.
C8_AddFileIdempotent == [][AddFileAgainKeeps]_vars

\* add_file was called with the name of file 0 and a content other than the
\* stored one, two files being registered.
C8_Witness ==
    /\ sm_call.op = "add_file"
    /\ Size(files) = 2
    /\ sm_call.name = At(files, 0).name
    /\ sm_call.content.value # At(files, 0).content
    /\ sm_call.content.value # <<>>
    /\ sm_ret = Some(0)

\* The global positions inside some file's range.
PositionsInFiles == UNION {GlobalRange(i) : i \in FileIds}

\* C9: for every global position p inside some file's range,
\* lookup_location(p) returns a Location and lookup_byte_pos of it returns p.
C9_LocationRoundTrip ==
    \A p \in PositionsInFiles :
        /\ lookup_location(p).has
        /\ lookup_byte_pos(lookup_location(p).value) = Some(p)

\* An empty file lies between a file that ends in a newline and a file of
\* two lines.
C9_Witness ==
    /\ Size(files) = 3
    /\ At(files, 0).content = <<"x", NL>>
    /\ At(files, 1).content = <<>>
    /\ At(files, 2).content = <<NL, "x">>
    /\ lookup_location(3).has
    /\ lookup_location(3).value = Location(2, 2, 0)

\* The number of newline bytes before local offset off.
NewlinesBefore(content, off) ==
    Cardinality({i \in 0..(off - 1) : At(content, i) = NL})

\* The offset of the first byte of the line that holds local offset off: the
\* byte after the last newline before off, 0 without one.
LineFirstByte(content, off) ==
    LET after == {i + 1 : i \in {k \in 0..(off - 1) : At(content, k) = NL}}
    IN  IF after = {} THEN 0
        ELSE CHOOSE m \in after : \A n \in after : n <= m

\* C10: for every p below the total registered length, lookup_location(p) is
\* the Location whose file is the one file whose range holds p, whose line is
\* 1 plus the number of newlines before the local offset and whose column is
\* the distance from the line's first byte; for every p outside every file it
\* is absent.
C10_LookupLocation ==
    \A p \in 0..(next_start_pos + 2) :
        IF p < next_start_pos
        THEN /\ Cardinality({i \in FileIds : p \in GlobalRange(i)}) = 1
             /\ LET f == CHOOSE i \in FileIds : p \in GlobalRange(i)
                    content == At(files, f).content
                    off == p - At(files, f).start_pos
                IN  lookup_location(p) =
                        Some(Location(f, 1 + NewlinesBefore(content, off),
                                      off - LineFirstByte(content, off)))
        ELSE lookup_location(p) = None

\* A position on the second line of the second file, at a newline byte.
C10_Witness ==
    /\ Size(files) = 2
    /\ At(files, 0).content = <<"x">>
    /\ At(files, 1).content = <<"x", NL, NL>>
    /\ lookup_location(3) = Some(Location(1, 2, 0))
    /\ lookup_location(4) = None

\* The number of lines of a content: one more than its newline bytes.
LineCount(content) == 1 + NewlinesBefore(content, Size(content))

\* The offset of the first byte of line l (1-based) of a content.
LineStart(content, l) ==
    CHOOSE off \in 0..Size(content) :
        /\ NewlinesBefore(content, off) = l - 1
        /\ off = 0 \/ At(content, off - 1) = NL

\* Where line l ends: the next line's start, the file end for the last line.
LineLimit(content, l) ==
    IF l < LineCount(content) THEN LineStart(content, l + 1) ELSE Size(content)

\* Whether (line, column) names a line of the content and a column that does
\* not run past the line's limit.
LocationAccepted(content, line, column) ==
    /\ line \in 1..LineCount(content)
    /\ LineStart(content, line) + column <= LineLimit(content, line)

\* The Locations lookup_byte_pos is asked for: registered and unknown files,
\* existing and missing lines, columns inside and past the line.
ProbeLocations ==
    {Location(f, l, c) : f \in 0..Size(files),
                         l \in 0..(next_start_pos + 2),
                         c \in 0..(next_start_pos + 1)}

ProbeSpans ==
    {Span(a, b) : a \in 0..(next_start_pos + 2), b \in 0..(next_start_pos + 2)}

\* C12: get_span_text is absent for every span that is invalid or whose end
\* exceeds the total registered byte length, whatever the span's length.
C12_SpanTextAbsent ==
    \A span \in ProbeSpans :
        (~is_valid(span) \/ span.end > next_start_pos) =>
            get_span_text(span) = None

\* The contents of files 0..i-1, concatenated in registration order.
RECURSIVE Concatenation(_)
Concatenation(i) ==
    IF i = 0 THEN <<>>
    ELSE Concatenation(i - 1) \o At(files, i - 1).content

\* C13: for every valid span with end <= the total registered length,
\* get_span_text returns the bytes [start, end) of the concatenation of all
\* registered contents, also when the span straddles file boundaries.
C13_SpanText ==
    \A span \in ProbeSpans :
        (is_valid(span) /\ span.end <= next_start_pos) =>
            get_span_text(span) =
                Some(SubSeq(Concatenation(Size(files)), span.start + 1, span.end))

\* A span that starts in the first file, crosses an empty file and ends in
\* the third file.
C13_Witness ==
    /\ Size(files) = 3
    /\ At(files, 0).content = <<"x", NL>>
    /\ At(files, 1).content = <<>>
    /\ At(files, 2).content = <<NL, "x">>
    /\ get_span_text(Span(1, 4)) = Some(<<NL, NL, "x">>)

\* The local offset a (line, column) pair of a content names, -1 when the
\* pair is not accepted.
ExpectedLocal(content, line, column) ==
    IF LocationAccepted(content, line, column)
    THEN LineStart(content, line) + column
    ELSE -1

\* The (line, column) pairs make_span is asked for in a content, each with
\* the local offset it names: every line and one line past the last, every
\* column up to one past the line's limit, and line 0.
ProbePairs(content) ==
    {<<0, 0, -1>>} \cup
    UNION {LET width == IF l <= LineCount(content)
                        THEN LineLimit(content, l) - LineStart(content, l)
                        ELSE 0
           IN  {<<l, c, ExpectedLocal(content, l, c)>> : c \in 0..(width + 1)}
           : l \in 1..(LineCount(content) + 1)}

\* C14: make_span returns Span(start_pos + local(start), start_pos +
\* local(end)) when the file is registered and both (line, column) pairs are
\* accepted, and the zero span otherwise.
C14_MakeSpan ==
    /\ \A sl \in 0..1, sc \in 0..1, el \in 0..1, ec \in 0..1 :
           make_span(Size(files), sl, sc, el, ec) = Span(0, 0)
    /\ \A f \in FileIds :
           LET file == At(files, f)
               pairs == ProbePairs(file.content)
           IN  \A s \in pairs, e \in pairs :
                   make_span(f, s[1], s[2], e[1], e[2]) =
                       IF s[3] >= 0 /\ e[3] >= 0
                       THEN Span(file.start_pos + s[3], file.start_pos + e[3])
                       ELSE Span(0, 0)

\* A span made in the second file, from its first line to its second.
C14_Witness ==
    /\ Size(files) = 2
    /\ At(files, 0).content = <<"x">>
    /\ At(files, 1).content = <<"x", NL, "x">>
    /\ make_span(1, 1, 1, 2, 1) = Span(2, 4)
    /\ make_span(1, 1, 1, 3, 0) = Span(0, 0)
    /\ make_span(2, 1, 0, 1, 0) = Span(0, 0)

\* What C15 says of a step that is a load_file call: an unreadable file
\* gives absent and changes nothing; a registered path gives its FileId and
\* changes nothing; a file that is read is registered under the next id at
\* next_start_pos, whether or not a load failed before.
LoadFileStep ==
    sm_call'.op = "load_file" =>
        IF sm_call'.name \in DOMAIN file_id_map
        THEN /\ sm_ret' = Some(file_id_map[sm_call'.name])
             /\ UNCHANGED <<files, file_id_map, next_start_pos>>
        ELSE IF ~sm_call'.content.has
             THEN /\ sm_ret' = None
                  /\ UNCHANGED <<files, file_id_map, next_start_pos>>
             ELSE /\ sm_ret' = Some(Size(files))
                  /\ Size(files') = Size(files) + 1
                  /\ At(files', Size(files)).start_pos = next_start_pos
                  /\ At(files', Size(files)).start_pos = SumOfLengths(Size(files))
                  /\ At(files', Size(files)).name = sm_call'.name
                  /\ At(files', Size(files)).content = sm_call'.content.value

\* C15: load_file of a path that cannot be opened returns absent and leaves
\* the source map unchanged; load_file of a registered path returns the
\* existing FileId without registering anything; a successful load after a
\* failed one gets the FileId and start_pos it would have got without it.
C15_LoadFile == [][LoadFileStep]_vars

\* A load failed, and a later load registered the second file.
C15_Witness ==
    /\ sm_load_failed
    /\ sm_call.op = "load_file"
    /\ sm_call.content.has
    /\ Size(files) = 2
    /\ sm_ret = Some(1)
    /\ At(files, 1).start_pos = 2

\* ------------------------------------------------------- DiagCtxt, claims

\* How many of the first k emit calls carried a level of the set.
NumEmits(k, levels) == Cardinality({i \in 1..k : emitted[i].level \in levels})

\* Whether the k-th emit call found its budget used up by the calls before.
OverCeiling(k) ==
    CASE emitted[k].level \in {"Error", "Fatal"} ->
             NumEmits(k - 1, {"Error", "Fatal"}) >= options_.max_errors
      [] emitted[k].level = "Warning" ->
             NumEmits(k - 1, {"Warning"}) >= options_.max_warnings
      [] OTHER -> FALSE

\* The emitters registered before any emit call.
EarlyEmitters == {e \in 0..(Size(emitters_) - 1) : At(emitters_, e).registered_after = 0}

\* The Diags an emitter was handed, in order.
Received(e) ==
    LET calls == SelectSeq(delivered, LAMBDA call : call.emitter = e)
    IN  [i \in 1..Len(calls) |-> calls[i].diag]

\* C16: error_count() is min(max_errors, Error/Fatal emits so far) and
\* warning_count() is min(max_warnings, Warning emits so far); a diagnostic
\* over its ceiling reaches no emitter, so an emitter registered from the
\* start has received min(max_errors, Error/Fatal emits) of them.
C16_HardCeiling ==
    /\ error_count_ = Min(options_.max_errors,
                          NumEmits(Size(emitted), {"Error", "Fatal"}))
    /\ warning_count_ = Min(options_.max_warnings,
                            NumEmits(Size(emitted), {"Warning"}))
    /\ \A k \in 1..Size(emitted) :
           OverCeiling(k) =>
               \A j \in 1..Len(delivered) : delivered[j].diag # emitted[k]
    /\ \A e \in EarlyEmitters :
           Cardinality({j \in 1..Len(delivered) :
                            /\ delivered[j].emitter = e
                            /\ delivered[j].diag.level \in {"Error", "Fatal"}})
               = Min(options_.max_errors,
                     NumEmits(Size(emitted), {"Error", "Fatal"}))

\* max_errors = 2, three Error emits, two of them reached the emitter.
C16_Witness ==
    /\ options_.max_errors = 2
    /\ Size(emitted) = 3
    /\ \A k \in 1..3 : emitted[k].level = "Error"
    /\ Size(emitters_) = 1
    /\ error_count_ = 2
    /\ Received(0) = <<emitted[1], emitted[2]>>

\* What C17 says of a step that is an emit call.
BudgetStep ==
    emitted' # emitted =>
        LET diag == emitted'[Len(emitted')]
            kept == /\ error_count_' = error_count_
                    /\ warning_count_' = warning_count_
                    /\ delivered' = delivered
            handed == /\ Len(delivered') = Len(delivered) + Size(emitters_)
                      /\ \A j \in (Len(delivered) + 1)..Len(delivered') :
                             delivered'[j].diag = diag
        IN  CASE diag.level \in {"Error", "Fatal"} ->
                     IF error_count_ < options_.max_errors
                     THEN /\ error_count_' = error_count_ + 1
                          /\ warning_count_' = warning_count_
                          /\ handed
                     ELSE kept
              [] diag.level = "Warning" ->
                     IF warning_count_ < options_.max_warnings
                     THEN /\ warning_count_' = warning_count_ + 1
                          /\ error_count_' = error_count_
                          /\ handed
                     ELSE kept
              [] OTHER ->
                     /\ error_count_' = error_count_
                     /\ warning_count_' = warning_count_
                     /\ handed

\* C17: Error and Fatal draw on one budget, each emitted one adding 1 to
\* error_count only; Warning draws on the warning budget alone; Note is
\* always emitted and changes neither counter.
C17_SeverityBudgets == [][BudgetStep]_vars

\* A Fatal used up the error budget, the Error after it was refused, and the
\* Warning after that was emitted.
C17_Witness ==
    /\ options_ = DiagCtxtOptions(1, 1)
    /\ Size(emitted) = 3
    /\ emitted[1].level = "Fatal"
    /\ emitted[2].level = "Error"
    /\ emitted[3].level = "Warning"
    /\ Size(emitters_) = 1
    /\ error_count_ = 1
    /\ warning_count_ = 1
    /\ Received(0) = <<emitted[1], emitted[3]>>

\* The DiagEmitter::emit calls the first k emit calls must have made: for
\* each call not over its ceiling, one per emitter registered before the
\* call, in registration order, with the Diag of the call and the counters
\* after the call's increment.
RECURSIVE ExpectedDeliveries(_)
ExpectedDeliveries(k) ==
    IF k = 0 THEN <<>>
    ELSE ExpectedDeliveries(k - 1) \o
         IF OverCeiling(k) THEN <<>>
         ELSE LET registered ==
                      Cardinality({e \in 0..(Size(emitters_) - 1) :
                                       At(emitters_, e).registered_after < k})
              IN  [i \in 1..registered |->
                      [emitter |-> i - 1, diag |-> emitted[k],
                       error_count |->
                           Min(options_.max_errors,
                               NumEmits(k, {"Error", "Fatal"})),
                       warning_count |->
                           Min(options_.max_warnings,
                               NumEmits(k, {"Warning"}))]]

\* C18: every emitted diagnostic is handed unmodified to every registered
\* emitter, in registration order, after the counter was incremented; the
\* emitters registered before the first emit have received the same
\* sequence, the emitted diagnostics in emit order.
C18_Delivery ==
    /\ delivered = ExpectedDeliveries(Size(emitted))
    /\ \A e \in EarlyEmitters :
           Received(e) =
               SelectSeq(emitted,
                         LAMBDA diag : \E j \in 1..Len(delivered) :
                                           delivered[j].diag = diag)
    /\ \A e1 \in EarlyEmitters, e2 \in EarlyEmitters :
           Received(e1) = Received(e2)

\* Two emitters registered from the start; of three emits one was dropped.
C18_Witness ==
    /\ Size(emitters_) = 2
    /\ EarlyEmitters = {0, 1}
    /\ Size(emitted) = 3
    /\ Len(delivered) = 4
    /\ Received(0) = <<emitted[1], emitted[3]>>
    /\ Received(1) = Received(0)
    /\ delivered[1].emitter = 0
    /\ delivered[2].emitter = 1

\* ------------------------------------------------ TerminalEmitter, claims

\* Whether the pieces occur in the line, in their order.
RECURSIVE OccurInOrder(_, _)
OccurInOrder(pieces, line) ==
    IF pieces = <<>> THEN TRUE
    ELSE IF line = <<>> THEN FALSE
    ELSE IF Head(pieces) = Head(line)
         THEN OccurInOrder(Tail(pieces), Tail(line))
         ELSE OccurInOrder(pieces, Tail(line))

\* Whether the start of the label's span lies in a file of the SourceMap the
\* emitter was given.
StartResolves(label) ==
    /\ source_map_
    /\ \E f \in FileIds :
           /\ At(files, f).start_pos <= label.span.start
           /\ label.span.start < At(files, f).start_pos + Size(At(files, f).content)

\* C19: for every Diag and every SourceMap (also none, or one without a file
\* for the span) the emitter writes the header line with the code (when
\* present), the level word and the message, then what the labels write,
\* then one line per note; a label whose span start resolves to no location
\* writes nothing.
C19_RenderingDegrades ==
    te_diag.has =>
        LET diag == te_diag.value
            n == Len(diag.notes)
        IN  /\ Len(output_) >= 1 + n
            /\ OccurInOrder((IF diag.error_code.has
                             THEN <<ToString(diag.error_code.value)>>
                             ELSE <<>>) \o <<diag.level, diag.primary_message>>,
                            output_[1])
            /\ \A i \in 1..n :
                   OccurInOrder(<<"note", diag.notes[i]>>,
                                output_[Len(output_) - n + i])
            /\ Len(te_blocks) = Len(diag.labels)
            /\ SubSeq(output_, 2, Len(output_) - n) = Flatten(te_blocks)
            /\ \A i \in 1..Len(te_sorted) :
                   ~StartResolves(te_sorted[i]) => te_blocks[i] = <<>>
            /\ (\A i \in 1..Len(diag.labels) : ~StartResolves(diag.labels[i]))
                   => Len(output_) = 1 + n

\* A Diag with a code, a note, a label in a registered file and a label past
\* every file: the first label is rendered, the second writes nothing.
C19_Witness ==
    /\ te_diag.has
    /\ source_map_
    /\ Size(files) = 1
    /\ te_diag.value.error_code = Some(7)
    /\ Len(te_diag.value.notes) = 1
    /\ Len(te_sorted) = 2
    /\ te_sorted[1].span = Span(2, 4)
    /\ te_sorted[2].span = Span(7, 8)
    /\ te_blocks[1] # <<>>
    /\ te_blocks[2] = <<>>
    /\ Len(output_) = 2 + Len(te_blocks[1])

\* ---------------------------------------------------------- Parser, claims

\* What C20 says of a step that constructs or destroys a guard: a guard
\* constructed adds one checkpoint, and when a guard's scope ends the depth
\* is the one found when the guard was constructed.
GuardStep ==
    /\ Len(guards') > Len(guards) => current_degree' = current_degree + 1
    /\ Len(guards') < Len(guards) =>
           current_degree' = guards[Len(guards)].before

\* C20: the stack depth is 1 after construction, every live ScopedGuard adds
\* exactly one checkpoint, the depth after a guard's scope ends (by return or
\* by error return) is the depth before the guard was created, and with no
\* guard alive no checkpoint is leaked and none is popped twice.
C20_GuardScoping ==
    /\ [](current_degree = 1 + Len(guards))
    /\ [][GuardStep]_vars

\* C21: whenever at least one token was consumed since the innermost
\* checkpoint c, current_span() is Span(tokens[c].start + base,
\* tokens[cursor-1].end + base), up to and including the cursor position
\* where every token of the list has been consumed.
C21_CurrentSpanCovers ==
    (cursor_stack_ # <<>> /\ cursor_stack_[Len(cursor_stack_)] < cursor_) =>
        current_span =
            Span(At(tokens_, cursor_stack_[Len(cursor_stack_)]).start + start_pos_,
                 At(tokens_, cursor_ - 1).end + start_pos_)

\* C27: current_span() is a valid span (start <= end) in every state reached
\* through enter, exit, next_token, eat_token and eat_tokens, for token lists
\* with increasing, non-overlapping ranges.
C27_CurrentSpanValid == current_span.start <= current_span.end

\* The lists of kinds peek is asked for.
ProbeKinds == SeqsUpTo({"Id", "Plus"}, 2) \ {<<>>}

\* C28: peek(expected) is true exactly when the |expected| tokens from the
\* cursor on all exist and have the expected kinds in order; peek of {k} is
\* true in every state in which eat_token(k) would succeed.
C28_PeekExact ==
    /\ \A expected \in ProbeKinds :
           peek(expected) <=>
               \A i \in 0..(Size(expected) - 1) :
                   /\ cursor_ + i < Size(tokens_)
                   /\ At(tokens_, cursor_ + i).kind = At(expected, i)
    /\ \A k \in {"Id", "Plus"} : eat_token_returns(k) => peek(<<k>>)

\* ------------------------------------------------------------- Vfs, claims

\* What the claims say of a setter call on a directory node or an unknown
\* node id: it returns false and changes no node.
SetterRefused ==
    (/\ vfs_call'.op \in {"set_source_file_id", "set_ast"}
     /\ \/ vfs_call'.node_id >= Size(vfs_nodes_)
        \/ At(vfs_nodes_, vfs_call'.node_id).type = "Directory")
        => vfs_ret' = FALSE /\ vfs_nodes_' = vfs_nodes_

\* A setter call on a file node succeeds.
SetterAccepted ==
    (/\ vfs_call'.op \in {"set_source_file_id", "set_ast"}
     /\ vfs_call'.node_id < Size(vfs_nodes_)
     /\ At(vfs_nodes_, vfs_call'.node_id).type = "File")
        => vfs_ret' = TRUE

\* C22 as claimed: for every file node get_source_file_id and get_ast are
\* absent until the matching setter succeeds and from then on return the
\* value set; a setter on a directory node or an unknown node id returns
\* false and changes no node.
C22_FileLinkage ==
    /\ [](\A n \in VfsNodeIds :
              /\ get_source_file_id(n) = VfsSet(n).source_file_id
              /\ get_ast(n) = VfsSet(n).ast)
    /\ [][SetterRefused /\ SetterAccepted]_vars

\* C22 as amended: as claimed, except that get_ast returns the Ast set last
\* only when it is not a null pointer; after a successful set_ast of a null
\* pointer get_ast is absent.
C22_FileLinkageNonNull ==
    /\ [](\A n \in VfsNodeIds :
              /\ get_source_file_id(n) = VfsSet(n).source_file_id
              /\ get_ast(n) = IF VfsSet(n).ast = Some("nullptr")
                              THEN None ELSE VfsSet(n).ast)
    /\ [][SetterRefused /\ SetterAccepted]_vars

\* A file node linked to a FileId and an Ast, next to a file node whose Ast
\* was set to a null pointer, after a setter was refused on the root.
C22_Witness ==
    /\ Size(vfs_nodes_) = 3
    /\ get_source_file_id(1) = Some(1)
    /\ get_ast(1) = Some("ast2")
    /\ VfsSet(2).ast = Some("nullptr")
    /\ get_ast(2) = None
    /\ get_source_file_id(2) = None
    /\ vfs_call.op = "set_ast"
    /\ vfs_call.node_id = 0
    /\ vfs_ret = FALSE

\* ------------------------------------- TerminalEmitter, labels and underlines

\* The labels in ascending order of span start, labels of equal start in
\* their insertion order.
StableSorted(labels) ==
    LET p == CHOOSE q \in Permutations(1..Len(labels)) :
                 \A i \in 1..Len(labels), j \in 1..Len(labels) :
                     i < j =>
                         \/ labels[q[i]].span.start < labels[q[j]].span.start
                         \/ /\ labels[q[i]].span.start = labels[q[j]].span.start
                            /\ q[i] < q[j]
    IN  [i \in 1..Len(labels) |-> labels[p[i]]]

\* C23: the labels are rendered in ascending order of span start, labels of
\* equal start in insertion order, and the first of that order is rendered
\* as the primary label.
C23_StableLabelOrder ==
    te_diag.has =>
        /\ te_sorted = StableSorted(te_diag.value.labels)
        /\ te_blocks = [i \in 1..Len(te_diag.value.labels) |->
                           render_label(StableSorted(te_diag.value.labels)[i],
                                        i = 1)]

\* The glyphs of the active glyph set and the prefix of a source line.
Dash == IF use_unicode_ THEN BoxHorizontal ELSE "-"
Caret == IF use_unicode_ THEN BoxVertical ELSE "|"
LinePrefix == IF use_unicode_ THEN " " \o BoxVertical \o " " ELSE " | "

\* The underline glyphs written on a line, and the lines of a block that
\* carry any.
GlyphsOf(line) == SelectSeq(line, LAMBDA piece : piece \in {Dash, Caret})
UnderlineLines(block) == SelectSeq(block, LAMBDA line : GlyphsOf(line) # <<>>)

\* The file that holds the start of a label whose start resolves.
StartFile(label) ==
    CHOOSE f \in FileIds :
        /\ At(files, f).start_pos <= label.span.start
        /\ label.span.start < At(files, f).start_pos + Size(At(files, f).content)

\* The column of the label's start in its line.
StartColumn(label) ==
    LET file == At(files, StartFile(label))
        local == label.span.start - file.start_pos
    IN  local - LineFirstByte(file.content, local)

\* The bytes of the label's span that lie on the line of its start.
BytesOnStartLine(label) ==
    LET file == At(files, StartFile(label))
        local == label.span.start - file.start_pos
        line == 1 + NewlinesBefore(file.content, local)
    IN  Min(label.span.end, file.start_pos + LineLimit(file.content, line))
            - label.span.start

\* Whether the glyphs of an underline line begin at the column: between the
\* line prefix and the first glyph lie column spaces and the style.
BeginsAtColumn(line, column) ==
    \E k \in 1..Len(line) :
        /\ line[k] = LinePrefix
        /\ k + column + 2 <= Len(line)
        /\ \A j \in (k + 1)..(k + column) : line[j] = " "
        /\ line[k + column + 2] \in {Dash, Caret}

\* C24: a resolvable label whose span has zero length is marked under its
\* start line by exactly one insertion caret of the active glyph set, not by
\* a dash.
C24_InsertionCaret ==
    \A i \in 1..Len(te_sorted) :
        (StartResolves(te_sorted[i])
         /\ te_sorted[i].span.start = te_sorted[i].span.end) =>
            /\ Len(UnderlineLines(te_blocks[i])) = 1
            /\ GlyphsOf(UnderlineLines(te_blocks[i])[1]) = <<Caret>>

\* C25: for a resolvable label with a non-empty span the underline under the
\* line of the label's start begins at the start column and has as many
\* glyphs as the span has bytes on that line, wherever the span ends.
C25_UnderlineLength ==
    \A i \in 1..Len(te_sorted) :
        (StartResolves(te_sorted[i])
         /\ te_sorted[i].span.start < te_sorted[i].span.end) =>
            /\ Len(UnderlineLines(te_blocks[i])) = 1
            /\ BeginsAtColumn(UnderlineLines(te_blocks[i])[1],
                              StartColumn(te_sorted[i]))
            /\ Len(GlyphsOf(UnderlineLines(te_blocks[i])[1]))
                   = BytesOnStartLine(te_sorted[i])

\* ---------------------------------------------------- SourceMap, span validity

\* C30: for every registered file and every combination of start and end
\* (line, column) arguments the span returned by make_span satisfies
\* start <= end, the zero span included.
C30_MakeSpanValid ==
    \A f \in FileIds :
        LET pairs == ProbePairs(At(files, f).content)
        IN  \A s \in pairs, e \in pairs :
                is_valid(make_span(f, s[1], s[2], e[1], e[2]))

\* --------------------------------------------------------- Parser, parse

\* A parse step: the FileScope node is appended, the root is its index, no
\* diagnostic is emitted and the cursor stack is as before.
C26_ParseStep ==
    pa_call' = "parse" =>
        /\ nodes_' = Append(nodes_, "FileScope")
        /\ root_' = Size(nodes_)
        /\ root_' >= 1
        /\ emitted' = emitted
        /\ Size(cursor_stack_') = Size(cursor_stack_)

\* A ParseError handed to the DiagCtxt: one diagnostic at the error's level
\* with one label on the error's span; the Ast and the cursor stack are as
\* before.
C26_ErrorStep ==
    pa_call' = "ParseError::emit" =>
        /\ root_' = root_
        /\ nodes_' = nodes_
        /\ Size(cursor_stack_') = Size(cursor_stack_)
        /\ Len(emitted') = Len(emitted) + 1
        /\ SubSeq(emitted', 1, Len(emitted)) = emitted
        /\ LET diag == emitted'[Len(emitted')]
           IN  /\ diag.level = pa_error'.value.level
               /\ Len(diag.labels) = 1
               /\ diag.labels[1].span = pa_error'.value.span

NonEofAdvances ==
    (lex_ret'.has /\ lex_ret'.value.kind # "Eof") => cursor' > cursor

\* C29: for every input, calling next again and again returns an Eof token
\* after finitely many calls, because every call that returns a token other
\* than Eof, an Invalid one too, moves the cursor forward by at least one
\* byte.
C29_LexerProgress ==
    /\ <>(lex_ret.has /\ lex_ret.value.kind = "Eof")
    /\ [][NonEofAdvances]_vars

====
